---- MODULE Spec2Model ----
(***************************************************************************)
(* Robot remote-control service (server/app.py) and the viewer's           *)
(* drop-frame pipeline (client/vision/frame_processor.py).                 *)
(*                                                                         *)
(* Units.  Commanded speeds, speed limit and trim are in hundredths        *)
(* (100 = 1.0).  A magnitude is the product of three such numbers, so it   *)
(* is in millionths (1000 = 1e-3).  Duties are in millionths, which is     *)
(* also the unit of pigpio's hardware_PWM duty argument.  The clock unit   *)
(* is 0.3 s, the watchdog window.                                          *)
(***************************************************************************)
EXTENDS Integers, Sequences, FiniteSets, TLC

VARIABLES
    clock,        \* time.time()
    last_drive,   \* _last_drive: [left, right, ts]
    drive_lock,   \* _drive_lock: "free" or the task holding it
    motor_lock,   \* _motor_lock: "free" or the task holding it
    cur,          \* _cur: side -> [dir, duty]
    pins,         \* L298N lines: side -> [in1, in2, pwm]
    loop,         \* _drive_apply_loop: position and locals
    handler,      \* per connection: the running event handler and its locals
    h_last,       \* history: the values of the command whose write completed last
    SPEED_LIMIT,  \* SPEED_LIMIT
    TRIM,         \* TRIM: side -> value
    cfg,          \* the running configuration handler and its locals
    latest_jpg,   \* FrameProcessor._latest_jpg (0 is None)
    render_busy,  \* FrameProcessor._render_busy
    last_frame_bgr, \* FrameProcessor.last_frame_bgr (0 is None)
    shown,        \* the frame on the live panel (0 is the banner)
    tkq,          \* Tk's queue of after(0, ...) callbacks
    rx,           \* the socket thread running process_video_frame
    ui,           \* the UI thread running a callback
    arrived,      \* frames received so far; frame ids are 1, 2, ...
    h_corrupt,    \* history: some frame received did not decode
    SERVO_ANGLE_DEG, \* SERVO_ANGLE_DEG, in degrees
    SERVO_TRIM_US,   \* SERVO_TRIM_US, in microseconds
    servo_us,     \* the pulse width last written to the servo pin
    srv,          \* the running servo handler and its locals
    exit,         \* the atexit hook _on_exit: position and history
    picam2,       \* picam2: whether the camera has been opened
    cam,          \* stream_camera: position, locals and history
    stat,         \* _status_broadcast_loop: position and history
    probe,        \* one evaluation of _set_speed_one's arithmetic: inputs and results
    boot,         \* sio's task attributes, the tasks started, and the running on_connect handlers
    drive_pressed, \* InputHandler.drive_pressed
    kb,           \* history: the last key event and the command it sent
    ui_time,      \* the viewer's clock, in ms
    timers,       \* Tk's pending after() timers
    handles,      \* SettingsService's job attributes: attribute -> timer id (0 is None)
    slider        \* history: the last change of each setting and the last emission

serverVars == <<clock, last_drive, drive_lock, motor_lock, cur, pins, loop,
                handler, h_last>>
configVars == <<SPEED_LIMIT, TRIM, cfg>>
frameVars  == <<latest_jpg, render_busy, last_frame_bgr, shown, tkq, rx, ui, arrived,
               h_corrupt>>
servoVars  == <<SERVO_ANGLE_DEG, SERVO_TRIM_US, servo_us, srv>>
exitVars   == <<exit>>
taskVars   == <<picam2, cam, stat>>
probeVars  == <<probe>>
bootVars   == <<boot>>
clientVars == <<drive_pressed, kb, ui_time, timers, handles, slider>>
vars == <<serverVars, configVars, frameVars, servoVars, exitVars, taskVars, probeVars, bootVars, clientVars>>

----------------------------------------------------------------------------
(* Bounds of the model *)

MaxClock == 2       \* clock advances after start-up
MaxFrames == 3      \* frames received by the viewer

----------------------------------------------------------------------------
(* Program constants *)

DUTY_MIN == 12          \* 0.12
DUTY_MAX == 100         \* 1.00
BRAKE_TIME == 60        \* 0.06 s, in ms
START_KICK_DUTY == 60   \* 0.6
START_KICK_MS == 70     \* 70 ms
WATCHDOG_S == 1         \* 0.30 s, in clock units
InitSpeedLimit == 30    \* SPEED_LIMIT = 0.30
InitTrim == 100         \* TRIM = 1.00 on both sides
EPS == 1000             \* 1e-3, in millionths
DutyUnit == 10000       \* millionths per hundredth

Sides == {"L", "R"}
\* the connected clients
Conns == {"c1", "c2"}
POLARITY == [s \in Sides |-> IF s = "L" THEN -1 ELSE 1]

\* time.time() at start-up: the epoch clock is far beyond the initial ts of 0
BootTime == WATCHDOG_S + 1

Min(a, b) == IF a < b THEN a ELSE b
Max(a, b) == IF a > b THEN a ELSE b
Abs(a) == IF a < 0 THEN -a ELSE a
Clamp(lo, hi, v) == Max(lo, Min(hi, v))

----------------------------------------------------------------------------
(* Payload values: a JSON number, a non-numeric string, or an absent key *)

Num(n) == [t |-> "num", v |-> n]
Str == [t |-> "str", v |-> 0]
Absent == [t |-> "absent", v |-> 0]

\* a float() that takes what does not parse as 0.0
ParseFloatLenient(x) == [ok |-> TRUE, v |-> IF x.t = "num" THEN x.v ELSE 0]

\* float(x): ok with the number, or the ValueError/TypeError
ParseFloat(x) == IF x.t = "num" THEN [ok |-> TRUE, v |-> x.v] ELSE [ok |-> FALSE, v |-> 0]

\* data.get(key, 0.0)
GetOr0(x) == IF x.t = "absent" THEN Num(0) ELSE x

----------------------------------------------------------------------------
(* Motor math: _set_speed_one, lines 179-211 *)

\* pow(mag, GAMMA) for GAMMA = 0.7, both in millionths, at the magnitudes the
\* model's inputs produce; between knots the value of the knot below.
GammaKnots ==
    { <<1000, 7943>>, <<1500, 10550>>, <<2400, 14660>>, <<2500, 15085>>, <<3000, 17139>>,
      <<4000, 20962>>, <<5000, 24506>>, <<6000, 27842>>, <<8000, 34054>>,
      <<10000, 39811>>, <<20000, 64673>>, <<22500, 70231>>, <<30000, 85898>>, <<37500, 100420>>,
      <<45000, 114090>>, <<50000, 122823>>, <<60000, 139542>>, <<75000, 163133>>, <<90000, 185340>>,
      <<100000, 199526>>, <<120000, 226687>>, <<125000, 233258>>,
      <<150000, 265011>>, <<180000, 301086>>, <<200000, 324131>>, <<240000, 368254>>,
      <<250000, 378929>>, <<300000, 430512>>, <<360000, 489116>>, <<400000, 526553>>,
      <<500000, 615572>>, <<600000, 699368>>, <<800000, 855388>>,
      <<1000000, 1000000>>, <<1200000, 1136127>>, <<2000000, 1624505>> }

PowGamma(mag) ==
    LET below == { k \in GammaKnots : k[1] <= mag }
        top == CHOOSE k \in below : \A j \in below : j[1] <= k[1]
    IN  top[2]

\* a signed speed that leaves out the polarity
SignedSpeedNoPolarity(side, speed) == Clamp(-100, 100, speed)

\* s = max(-1.0, min(1.0, float(speed))) * POLARITY[side]
SignedSpeed(side, speed) == Clamp(-100, 100, speed) * POLARITY[side]

\* a magnitude that leaves out the trim
MagnitudeNoTrim(side, speed, limit, trim) ==
    Abs(SignedSpeed(side, speed)) * Clamp(0, 100, limit) * 100

\* a magnitude that leaves out the speed limit
MagnitudeNoLimit(side, speed, limit, trim) ==
    Abs(SignedSpeed(side, speed)) * 100 * Clamp(0, 200, trim[side])

\* mag = abs(s) * clamp(SPEED_LIMIT, 0, 1) * clamp(TRIM[side], 0, 2)
Magnitude(side, speed, limit, trim) ==
    Abs(SignedSpeed(side, speed)) * Clamp(0, 100, limit) * Clamp(0, 200, trim[side])

\* direction = 1 if s > 0 else -1
Direction(side, speed) == IF SignedSpeed(side, speed) > 0 THEN 1 ELSE -1

\* a duty that falls as the magnitude grows
TargetDutyFalling(mag) ==
    DUTY_MAX * DutyUnit - ((DUTY_MAX - DUTY_MIN) * Min(1000000, PowGamma(mag))) \div 100

\* target_duty = DUTY_MIN + (DUTY_MAX - DUTY_MIN) * min(1.0, mag_boosted)
TargetDuty(mag) ==
    DUTY_MIN * DutyUnit + ((DUTY_MAX - DUTY_MIN) * Min(1000000, PowGamma(mag))) \div 100

\* _duty_to_hw: clamp to [DUTY_MIN, DUTY_MAX], then int(d * 1_000_000)
DutyToHw(d) == Clamp(DUTY_MIN * DutyUnit, DUTY_MAX * DutyUnit, d)

\* kick = max(target_duty, START_KICK_DUTY)
KickDuty(target) == Max(target, START_KICK_DUTY * DutyUnit)

CoastPins == [in1 |-> 0, in2 |-> 0, pwm |-> 0]
BrakePins == [in1 |-> 1, in2 |-> 1, pwm |-> 0]
DirPins(direction, pwm) ==
    IF direction > 0 THEN [in1 |-> 1, in2 |-> 0, pwm |-> pwm]
                     ELSE [in1 |-> 0, in2 |-> 1, pwm |-> pwm]
Stopped == [dir |-> 0, duty |-> 0]


----------------------------------------------------------------------------
(* Server state: module level of server/app.py *)

NoReq == [left |-> Absent, right |-> Absent]
Idle == [pc |-> "idle", cmd |-> "none", req |-> NoReq, now |-> 0, held |-> 0,
         ok |-> FALSE, rl |-> Stopped, rr |-> Stopped]
\* wd is the branch the watchdog test took; seen is history, the (left, right)
\* in force at that test; slept is the time the kick was held, in ms
LoopIdle == [pc |-> "sleep", now |-> 0, wd |-> FALSE, seen |-> <<0, 0>>,
             L |-> 0, R |-> 0, side |-> "L", dir |-> 0, target |-> 0, slept |-> 0]

\* drive payloads sent by the clients
DrivePayloads ==
    { [left |-> Num(100), right |-> Num(100)],
      [left |-> Num(500), right |-> Num(100)],
      [left |-> Str,      right |-> Num(100)],
      [left |-> Absent,   right |-> Str] }

InitServer ==
    /\ clock = BootTime
    /\ last_drive = [left |-> 0, right |-> 0, ts |-> 0]
    /\ drive_lock = "free"
    /\ motor_lock = "free"
    /\ cur = [s \in Sides |-> Stopped]
    /\ pins = [s \in Sides |-> CoastPins]
    /\ loop = LoopIdle
    /\ handler = [c \in Conns |-> Idle]
    /\ h_last = [cmd |-> "none", left |-> 0, right |-> 0, driven |-> FALSE]

IsBrake(p) == p.in1 = 1 /\ p.in2 = 1
StopPcs == {"stop_lock", "stop_hold", "stop_coast", "stop_curL", "stop_curR", "stop_ack"}

\* time passes
Tick ==
    /\ clock < BootTime + MaxClock
    /\ clock' = clock + 1
    /\ UNCHANGED <<last_drive, drive_lock, motor_lock, cur, pins, loop, handler,
                   h_last, configVars, frameVars, servoVars, exitVars, taskVars, probeVars, bootVars, clientVars>>

\* an update that leaves the right value of the earlier command
UpdateLeftOnly(d, left, right, ts) == [d EXCEPT !.left = left, !.ts = ts]

\* _last_drive.update(left=..., right=..., ts=...)
Update(d, left, right, ts) == [left |-> left, right |-> right, ts |-> ts]

\* a handler's return value, on its way to the client
Reply(h, ok, rl, rr) ==
    [h EXCEPT !.pc = "reply", !.now = 0, !.ok = ok, !.rl = rl, !.rr = rr]

\* float(data.get("left", 0.0)) and float(data.get("right", 0.0)), lines 236-237
ParsedLeft(d) == ParseFloat(GetOr0(d.left))
ParsedRight(d) == ParseFloat(GetOr0(d.right))

\* on_drive, lines 234-239: read the clock, parse both values; a value that
\* does not parse returns the error acknowledgement
DriveParse(d) ==
    LET h == [Idle EXCEPT !.cmd = "drive", !.req = d, !.now = clock]
    IN  IF ParsedLeft(d).ok /\ ParsedRight(d).ok
        THEN [h EXCEPT !.pc = "drive_pub"]
        ELSE Reply(h, FALSE, Stopped, Stopped)

DriveBegin(c) ==
    /\ handler[c].pc = "idle"
    /\ \E d \in DrivePayloads : handler' = [handler EXCEPT ![c] = DriveParse(d)]
    /\ UNCHANGED <<clock, last_drive, drive_lock, motor_lock, cur, pins, loop,
                   h_last, configVars, frameVars, servoVars, exitVars, taskVars, probeVars, bootVars, clientVars>>

\* the intent on_drive writes, line 241
DriveIntent(h) ==
    Update(last_drive, ParsedLeft(h.req).v, ParsedRight(h.req).v, h.now)

\* on_drive, lines 240-242: publish under _drive_lock, acknowledge
DrivePublish(c) ==
    /\ handler[c].pc = "drive_pub"
    /\ drive_lock = "free"
    /\ last_drive' = DriveIntent(handler[c])
    /\ h_last' = [cmd |-> "drive", left |-> handler[c].req.left.v,
                  right |-> handler[c].req.right.v, driven |-> TRUE]
    /\ handler' = [handler EXCEPT ![c] = Reply(@, TRUE, Stopped, Stopped)]
    /\ UNCHANGED <<clock, drive_lock, motor_lock, cur, pins, loop,
                   configVars, frameVars, servoVars, exitVars, taskVars, probeVars, bootVars, clientVars>>

\* on_stop, lines 246-247: publish the zero intent under _drive_lock
StopPublish(c) ==
    /\ handler[c].pc = "idle"
    /\ drive_lock = "free"
    /\ last_drive' = Update(last_drive, 0, 0, clock)
    /\ h_last' = [cmd |-> "stop", left |-> 0, right |-> 0, driven |-> h_last.driven]
    /\ handler' = [handler EXCEPT ![c] = [Idle EXCEPT !.pc = "stop_lock", !.cmd = "stop"]]
    /\ UNCHANGED <<clock, drive_lock, motor_lock, cur, pins, loop,
                   configVars, frameVars, servoVars, exitVars, taskVars, probeVars, bootVars, clientVars>>

\* a stop that calls stop_all(brake=False)
StopBrakeArgOff == FALSE

\* the brake argument on_stop passes to stop_all, line 248
StopBrakeArg == TRUE

\* stop_all, lines 214-218: take _motor_lock; with brake, both lines high, PWM 0
StopAllEnter(c) ==
    /\ handler[c].pc = "stop_lock"
    /\ motor_lock = "free"
    /\ motor_lock' = "stop"
    /\ IF StopBrakeArg
       THEN /\ pins' = [s \in Sides |-> BrakePins]
            /\ handler' = [handler EXCEPT ![c].pc = "stop_hold"]
       ELSE /\ handler' = [handler EXCEPT ![c].pc = "stop_coast"]
            /\ UNCHANGED pins
    /\ UNCHANGED <<clock, last_drive, drive_lock, cur, loop,
                   h_last, configVars, frameVars, servoVars, exitVars, taskVars, probeVars, bootVars, clientVars>>

\* stop_all, line 218: time.sleep(BRAKE_TIME)
StopHold(c) ==
    /\ handler[c].pc = "stop_hold"
    /\ handler' = [handler EXCEPT ![c].pc = "stop_coast", ![c].held = BRAKE_TIME]
    /\ UNCHANGED <<clock, last_drive, drive_lock, motor_lock, cur, pins, loop,
                   h_last, configVars, frameVars, servoVars, exitVars, taskVars, probeVars, bootVars, clientVars>>

\* stop_all, lines 219-221: both lines low, PWM 0, on both channels
StopCoast(c) ==
    /\ handler[c].pc = "stop_coast"
    /\ pins' = [s \in Sides |-> CoastPins]
    /\ handler' = [handler EXCEPT ![c].pc = "stop_curL"]
    /\ UNCHANGED <<clock, last_drive, drive_lock, motor_lock, cur, loop,
                   h_last, configVars, frameVars, servoVars, exitVars, taskVars, probeVars, bootVars, clientVars>>

\* stop_all, line 222
StopCurL(c) ==
    /\ handler[c].pc = "stop_curL"
    /\ cur' = [cur EXCEPT !["L"] = Stopped]
    /\ handler' = [handler EXCEPT ![c].pc = "stop_curR"]
    /\ UNCHANGED <<clock, last_drive, drive_lock, motor_lock, pins, loop,
                   h_last, configVars, frameVars, servoVars, exitVars, taskVars, probeVars, bootVars, clientVars>>

\* stop_all, line 223, and the release of _motor_lock
StopCurR(c) ==
    /\ handler[c].pc = "stop_curR"
    /\ cur' = [cur EXCEPT !["R"] = Stopped]
    /\ motor_lock' = "free"
    /\ handler' = [handler EXCEPT ![c].pc = "stop_ack"]
    /\ UNCHANGED <<clock, last_drive, drive_lock, pins, loop,
                   h_last, configVars, frameVars, servoVars, exitVars, taskVars, probeVars, bootVars, clientVars>>

\* on_stop, line 249: the acknowledgement reads _cur
StopAck(c) ==
    /\ handler[c].pc = "stop_ack"
    /\ handler' = [handler EXCEPT ![c] = Reply(@, TRUE, cur["L"], cur["R"])]
    /\ UNCHANGED <<clock, last_drive, drive_lock, motor_lock, cur, pins, loop,
                   h_last, configVars, frameVars, servoVars, exitVars, taskVars, probeVars, bootVars, clientVars>>

\* on_get_status, lines 266-281: reads _cur, no lock
GetStatus(c) ==
    /\ handler[c].pc = "idle"
    /\ handler' = [handler EXCEPT ![c] =
                      Reply([Idle EXCEPT !.cmd = "get_status"], TRUE, cur["L"], cur["R"])]
    /\ UNCHANGED <<clock, last_drive, drive_lock, motor_lock, cur, pins, loop,
                   h_last, configVars, frameVars, servoVars, exitVars, taskVars, probeVars, bootVars, clientVars>>

\* the acknowledgement is delivered and the handler ends
Return(c) ==
    /\ handler[c].pc = "reply"
    /\ handler' = [handler EXCEPT ![c] = Idle]
    /\ UNCHANGED <<clock, last_drive, drive_lock, motor_lock, cur, pins, loop,
                   h_last, configVars, frameVars, servoVars, exitVars, taskVars, probeVars, bootVars, clientVars>>


----------------------------------------------------------------------------
(* _drive_apply_loop, lines 251-262 *)

\* a watchdog that waits one clock unit too long
StaleLate(now, ts) == now - ts > WATCHDOG_S + 1

\* now - _last_drive["ts"] > WATCHDOG_S
Stale(now, ts) == now - ts > WATCHDOG_S

\* line 253: now = time.time()
LoopNow ==
    /\ loop.pc = "sleep"
    /\ loop' = [loop EXCEPT !.pc = "read_ts", !.now = clock]
    /\ UNCHANGED <<clock, last_drive, drive_lock, motor_lock, cur, pins, handler,
                   h_last, configVars, frameVars, servoVars, exitVars, taskVars, probeVars, bootVars, clientVars>>

\* a watchdog that also resets the stored intent to (0, 0)
LoopReadTsReset ==
    /\ loop.pc = "read_ts"
    /\ drive_lock = "free"
    /\ IF Stale(loop.now, last_drive.ts)
       THEN /\ loop' = [loop EXCEPT !.pc = "acquire", !.now = 0, !.wd = TRUE,
                                     !.seen = <<last_drive.left, last_drive.right>>,
                                     !.L = 0, !.R = 0]
            /\ last_drive' = [last_drive EXCEPT !.left = 0, !.right = 0]
            /\ UNCHANGED drive_lock
       ELSE /\ loop' = [loop EXCEPT !.pc = "read_left", !.now = 0, !.wd = FALSE,
                                     !.seen = <<last_drive.left, last_drive.right>>]
            /\ drive_lock' = "loop"
            /\ UNCHANGED last_drive
    /\ UNCHANGED <<clock, motor_lock, cur, pins, handler,
                   h_last, configVars, frameVars, servoVars, exitVars, taskVars, probeVars, bootVars, clientVars>>

\* lines 254-256: take _drive_lock; a stale intent gives L = R = 0.0
LoopReadTs ==
    /\ loop.pc = "read_ts"
    /\ drive_lock = "free"
    /\ IF Stale(loop.now, last_drive.ts)
       THEN /\ loop' = [loop EXCEPT !.pc = "acquire", !.now = 0, !.wd = TRUE,
                                     !.seen = <<last_drive.left, last_drive.right>>,
                                     !.L = 0, !.R = 0]
            /\ UNCHANGED drive_lock
       ELSE /\ loop' = [loop EXCEPT !.pc = "read_left", !.now = 0, !.wd = FALSE,
                                     !.seen = <<last_drive.left, last_drive.right>>]
            /\ drive_lock' = "loop"
    /\ UNCHANGED <<clock, last_drive, motor_lock, cur, pins, handler,
                   h_last, configVars, frameVars, servoVars, exitVars, taskVars, probeVars, bootVars, clientVars>>

\* a read of left that lets go of _drive_lock before right is read
LoopReadLeftUnlocked ==
    /\ loop.pc = "read_left"
    /\ loop' = [loop EXCEPT !.pc = "read_right", !.L = last_drive.left]
    /\ drive_lock' = "free"
    /\ UNCHANGED <<clock, last_drive, motor_lock, cur, pins, handler,
                   h_last, configVars, frameVars, servoVars, exitVars, taskVars, probeVars, bootVars, clientVars>>

\* line 258: L = _last_drive["left"]
LoopReadLeft ==
    /\ loop.pc = "read_left"
    /\ loop' = [loop EXCEPT !.pc = "read_right", !.L = last_drive.left]
    /\ UNCHANGED <<clock, last_drive, drive_lock, motor_lock, cur, pins, handler,
                   h_last, configVars, frameVars, servoVars, exitVars, taskVars, probeVars, bootVars, clientVars>>

\* a read that keeps _drive_lock into the hardware writes
LoopReadRightHolds ==
    /\ loop.pc = "read_right"
    /\ loop' = [loop EXCEPT !.pc = "acquire", !.R = last_drive.right]
    /\ UNCHANGED <<clock, last_drive, drive_lock, motor_lock, cur, pins, handler,
                   h_last, configVars, frameVars, servoVars, exitVars, taskVars, probeVars, bootVars, clientVars>>

\* line 258: R = _last_drive["right"], and the release of _drive_lock
LoopReadRight ==
    /\ loop.pc = "read_right"
    /\ loop' = [loop EXCEPT !.pc = "acquire", !.R = last_drive.right]
    /\ drive_lock' = "free"
    /\ UNCHANGED <<clock, last_drive, motor_lock, cur, pins, handler,
                   h_last, configVars, frameVars, servoVars, exitVars, taskVars, probeVars, bootVars, clientVars>>

\* a tick that does not wait for _motor_lock
LoopAcquireNoWait ==
    /\ loop.pc = "acquire"
    /\ motor_lock' = "loop"
    /\ loop' = [loop EXCEPT !.pc = "hw", !.side = "L"]
    /\ UNCHANGED <<clock, last_drive, drive_lock, cur, pins, handler,
                   h_last, configVars, frameVars, servoVars, exitVars, taskVars, probeVars, bootVars, clientVars>>

\* line 259: take _motor_lock
LoopAcquire ==
    /\ loop.pc = "acquire"
    /\ motor_lock = "free"
    /\ motor_lock' = "loop"
    /\ loop' = [loop EXCEPT !.pc = "hw", !.side = "L"]
    /\ UNCHANGED <<clock, last_drive, drive_lock, cur, pins, handler,
                   h_last, configVars, frameVars, servoVars, exitVars, taskVars, probeVars, bootVars, clientVars>>

\* the speed the tick passes to _set_speed_one for a side, lines 260-261
\* a tick that applies full speed whatever it read
LoopSpeedFull(side) == 100

LoopSpeed(side) == IF side = "L" THEN loop.L ELSE loop.R

\* a kick on every non-zero output
WasStoppedAlways(side) == TRUE

\* was_stopped = (_cur[side]["duty"] <= 1e-6), line 203
WasStopped(side) == cur[side].duty <= 1

\* _set_speed_one, lines 181-206: the hardware writes up to the kick
LoopHw ==
    /\ loop.pc = "hw"
    /\ LET side == loop.side
           mag == Magnitude(side, LoopSpeed(side), SPEED_LIMIT, TRIM)
           dir == Direction(side, LoopSpeed(side))
           target == TargetDuty(mag)
       IN  IF mag < EPS
           THEN /\ pins' = [pins EXCEPT ![side] = CoastPins]
                /\ loop' = [loop EXCEPT !.pc = "store_dir", !.dir = 0, !.target = 0]
           ELSE IF WasStopped(side)
           THEN /\ pins' = [pins EXCEPT ![side] = DirPins(dir, DutyToHw(KickDuty(target)))]
                /\ loop' = [loop EXCEPT !.pc = "kick", !.dir = dir, !.target = target]
           ELSE /\ pins' = [pins EXCEPT ![side] = DirPins(dir, DutyToHw(target))]
                /\ loop' = [loop EXCEPT !.pc = "store_dir", !.dir = dir, !.target = target]
    /\ UNCHANGED <<clock, last_drive, drive_lock, motor_lock, cur, handler,
                   h_last, configVars, frameVars, servoVars, exitVars, taskVars, probeVars, bootVars, clientVars>>

\* lines 207-209: time.sleep(START_KICK_MS / 1000.0), then the target duty
LoopKick ==
    /\ loop.pc = "kick"
    /\ pins' = [pins EXCEPT ![loop.side].pwm = DutyToHw(loop.target)]
    /\ loop' = [loop EXCEPT !.pc = "store_dir", !.slept = START_KICK_MS]
    /\ UNCHANGED <<clock, last_drive, drive_lock, motor_lock, cur, handler,
                   h_last, configVars, frameVars, servoVars, exitVars, taskVars, probeVars, bootVars, clientVars>>

\* lines 190 and 210: the store of _cur[side]["dir"]
LoopStoreDir ==
    /\ loop.pc = "store_dir"
    /\ cur' = [cur EXCEPT ![loop.side].dir = loop.dir]
    /\ loop' = [loop EXCEPT !.pc = "store_duty", !.slept = 0]
    /\ UNCHANGED <<clock, last_drive, drive_lock, motor_lock, pins, handler,
                   h_last, configVars, frameVars, servoVars, exitVars, taskVars, probeVars, bootVars, clientVars>>

\* lines 190 and 210: the store of _cur[side]["duty"]; after side R the tick
\* releases _motor_lock and sleeps, line 262
LoopStoreDuty ==
    /\ loop.pc = "store_duty"
    /\ cur' = [cur EXCEPT ![loop.side].duty = loop.target]
    /\ IF loop.side = "L"
       THEN /\ loop' = [loop EXCEPT !.pc = "hw", !.side = "R"]
            /\ UNCHANGED motor_lock
       ELSE /\ loop' = [loop EXCEPT !.pc = "sleep", !.side = "L", !.dir = 0, !.target = 0]
            /\ motor_lock' = "free"
    /\ UNCHANGED <<clock, last_drive, drive_lock, pins, handler,
                   h_last, configVars, frameVars, servoVars, exitVars, taskVars, probeVars, bootVars, clientVars>>

LoopStep ==
    \/ LoopNow
    \/ LoopReadTs
    \/ LoopReadLeft
    \/ LoopReadRight
    \/ LoopAcquire
    \/ LoopHw
    \/ LoopKick
    \/ LoopStoreDir
    \/ LoopStoreDuty

HandlerStep(c) ==
    \/ DriveBegin(c)
    \/ DrivePublish(c)
    \/ StopPublish(c)
    \/ StopAllEnter(c)
    \/ StopHold(c)
    \/ StopCoast(c)
    \/ StopCurL(c)
    \/ StopCurR(c)
    \/ StopAck(c)
    \/ Return(c)

----------------------------------------------------------------------------
(* Configuration commands: on_set_speed_limit and on_set_trim, lines 289-313 *)

NoTrimReq == [L |-> Absent, R |-> Absent]
\* history: the command that ran before the current one
NoPrev == [cmd |-> "none", sl |-> Absent, trim |-> NoTrimReq, ok |-> FALSE,
           before |-> [sl |-> 0, trim |-> [s \in Sides |-> 0]]]
CfgIdle == [pc |-> "idle", cmd |-> "none", sl |-> Absent, trim |-> NoTrimReq,
            ok |-> FALSE, before |-> [sl |-> 0, trim |-> [s \in Sides |-> 0]],
            rep |-> [sl |-> 0, trim |-> [s \in Sides |-> 0]], prev |-> NoPrev]

\* set_speed_limit payloads: the value under "speed_limit"
SpeedLimitPayloads == {Num(0), Num(50), Num(150), Num(-50), Str, Absent}

\* set_trim payloads: the values under "L" and "R"
TrimPayloads ==
    { [L |-> Num(80), R |-> Absent],
      [L |-> Absent,  R |-> Num(250)],
      [L |-> Num(0),  R |-> Num(120)],
      [L |-> Num(80), R |-> Str],
      [L |-> Str,     R |-> Num(80)] }

InitConfig ==
    /\ SPEED_LIMIT = InitSpeedLimit
    /\ TRIM = [s \in Sides |-> InitTrim]
    /\ cfg = CfgIdle

\* cfg.before is history: the calibration when the command arrived
CfgStart(cmd) ==
    [CfgIdle EXCEPT !.cmd = cmd, !.before = [sl |-> SPEED_LIMIT, trim |-> TRIM],
                    !.prev = cfg.prev]

\* a store of the speed limit without the clamp
SpeedLimitStoreRaw(v) == v

\* the speed limit stored: max(0.0, min(1.0, v)), line 293
SpeedLimitStore(v) == Clamp(0, 100, v)

\* on_set_speed_limit: float(data.get("speed_limit")), clamp, store, acknowledge
SetSpeedLimit ==
    /\ cfg.pc = "idle"
    /\ \E x \in SpeedLimitPayloads :
         LET v == ParseFloat(x)
             h == [CfgStart("set_speed_limit") EXCEPT !.sl = x, !.pc = "reply"]
         IN  IF v.ok
             THEN /\ SPEED_LIMIT' = SpeedLimitStore(v.v)
                  /\ cfg' = [h EXCEPT !.ok = TRUE]
             ELSE /\ UNCHANGED SPEED_LIMIT
                  /\ cfg' = [h EXCEPT !.ok = FALSE]
    /\ UNCHANGED <<TRIM, serverVars, frameVars, servoVars, exitVars, taskVars, probeVars, bootVars, clientVars>>

\* on_set_trim: the handler starts on its payload
SetTrimBegin ==
    /\ cfg.pc = "idle"
    /\ \E d \in TrimPayloads :
         cfg' = [CfgStart("set_trim") EXCEPT !.trim = d, !.pc = "trim_L"]
    /\ UNCHANGED <<SPEED_LIMIT, TRIM, serverVars, frameVars, servoVars, exitVars, taskVars, probeVars, bootVars, clientVars>>

\* a trim clamped to the range of the speed limit
TrimStoreNarrow(val) == Clamp(0, 100, val)

\* the trim value one iteration stores: max(0.0, min(2.0, val)), line 309
TrimStore(val) == Clamp(0, 200, val)

\* on_set_trim, lines 306-313: one iteration of the loop over ("L", "R")
SetTrimKey ==
    /\ cfg.pc \in {"trim_L", "trim_R"}
    /\ LET k == IF cfg.pc = "trim_L" THEN "L" ELSE "R"
           x == cfg.trim[k]
           v == ParseFloat(x)
           next == IF k = "L" THEN [cfg EXCEPT !.pc = "trim_R"]
                              ELSE [cfg EXCEPT !.pc = "reply", !.ok = TRUE]
       IN  IF x.t = "absent"
           THEN /\ cfg' = next
                /\ UNCHANGED TRIM
           ELSE IF v.ok
           THEN /\ TRIM' = [TRIM EXCEPT ![k] = TrimStore(v.v)]
                /\ cfg' = next
           ELSE /\ cfg' = [cfg EXCEPT !.pc = "reply", !.ok = FALSE]
                /\ UNCHANGED TRIM
    /\ UNCHANGED <<SPEED_LIMIT, serverVars, frameVars, servoVars, exitVars, taskVars, probeVars, bootVars, clientVars>>

\* the acknowledgement is delivered and the handler ends
CfgReturn ==
    /\ cfg.pc = "reply"
    /\ cfg' = [CfgIdle EXCEPT !.prev = [cmd |-> cfg.cmd, sl |-> cfg.sl, trim |-> cfg.trim,
                                        ok |-> cfg.ok, before |-> cfg.before]]
    /\ UNCHANGED <<SPEED_LIMIT, TRIM, serverVars, frameVars, servoVars, exitVars, taskVars, probeVars, bootVars, clientVars>>

\* on_get_status, lines 272-273: the snapshot's "speed_limit" and "trim"
CfgGetStatus ==
    /\ cfg.pc = "idle"
    /\ cfg' = [CfgStart("get_status") EXCEPT !.pc = "reply", !.ok = TRUE,
                                             !.rep = [sl |-> SPEED_LIMIT, trim |-> TRIM]]
    /\ UNCHANGED <<SPEED_LIMIT, TRIM, serverVars, frameVars, servoVars, exitVars, taskVars, probeVars, bootVars, clientVars>>

----------------------------------------------------------------------------
(* The actuation loop under the calibrations the configuration commands reach *)

\* drive payloads: forward, reversed left, stopped left with a slower right
MotorDrivePayloads ==
    { [left |-> Num(100),  right |-> Num(100)],
      [left |-> Num(-100), right |-> Num(100)],
      [left |-> Num(0),    right |-> Num(50)] }

\* speed limits and trims stored by on_set_speed_limit and on_set_trim
MotorLimits == {0, InitSpeedLimit, 50}
MotorTrims == { [s \in Sides |-> InitTrim], [L |-> 0, R |-> 120] }

InitMotorConfig ==
    /\ SPEED_LIMIT \in MotorLimits
    /\ TRIM \in MotorTrims
    /\ cfg = CfgIdle

\* on_drive on one of the payloads above
MotorDriveBegin ==
    /\ handler["c1"].pc = "idle"
    /\ \E d \in MotorDrivePayloads : handler' = [handler EXCEPT !["c1"] = DriveParse(d)]
    /\ UNCHANGED <<clock, last_drive, drive_lock, motor_lock, cur, pins, loop,
                   h_last, configVars, frameVars, servoVars, exitVars, taskVars, probeVars, bootVars, clientVars>>

----------------------------------------------------------------------------
(* The viewer: FrameProcessor, client/vision/frame_processor.py *)

None == [id |-> 0, ok |-> FALSE]
Drain == [f |-> "drain", frame |-> 0]
Show(id) == [f |-> "show", frame |-> id]

InitFrame ==
    /\ latest_jpg = None
    /\ render_busy = FALSE
    /\ last_frame_bgr = 0
    /\ shown = 0
    /\ tkq = <<>>
    /\ rx = [pc |-> "idle", jpg |-> None]
    /\ ui = [pc |-> "idle", data |-> None, runs |-> 0]
    /\ arrived = 0
    /\ h_corrupt = FALSE

\* a video_frame event: process_video_frame is called and line 31 stores the
\* frame; ok tells whether the bytes decode
Arrive(ok) ==
    LET jpg == [id |-> arrived + 1, ok |-> ok]
    IN  /\ rx.pc = "idle"
        /\ arrived < MaxFrames
        /\ arrived' = arrived + 1
        /\ latest_jpg' = jpg
        /\ rx' = [pc |-> "check", jpg |-> jpg]
        /\ h_corrupt' = (h_corrupt \/ ~ok)
        /\ UNCHANGED <<render_busy, last_frame_bgr, shown, tkq, ui, serverVars, configVars, servoVars, exitVars, taskVars, probeVars, bootVars, clientVars>>

RxArrive == Arrive(TRUE)
RxArriveCorrupt == Arrive(FALSE)

\* line 32: if not self._render_busy
RxCheck ==
    /\ rx.pc = "check"
    /\ rx' = [rx EXCEPT !.pc = IF render_busy THEN "idle" ELSE "set_busy"]
    /\ UNCHANGED <<latest_jpg, render_busy, last_frame_bgr, shown, tkq, ui, arrived, h_corrupt,
                   serverVars, configVars, servoVars, exitVars, taskVars, probeVars, bootVars, clientVars>>

\* line 33: self._render_busy = True
RxSetBusy ==
    /\ rx.pc = "set_busy"
    /\ render_busy' = TRUE
    /\ rx' = [rx EXCEPT !.pc = "schedule"]
    /\ UNCHANGED <<latest_jpg, last_frame_bgr, shown, tkq, ui, arrived, h_corrupt,
                   serverVars, configVars, servoVars, exitVars, taskVars, probeVars, bootVars, clientVars>>

\* line 35: ui_update_callback(0, self._drain_and_render)
RxSchedule ==
    /\ rx.pc = "schedule"
    /\ tkq' = Append(tkq, Drain)
    /\ rx' = [rx EXCEPT !.pc = "idle"]
    /\ UNCHANGED <<latest_jpg, render_busy, last_frame_bgr, shown, ui, arrived, h_corrupt,
                   serverVars, configVars, servoVars, exitVars, taskVars, probeVars, bootVars, clientVars>>

\* the UI thread takes the next callback: _show_live_frame runs whole,
\* _drain_and_render starts
UiRun ==
    /\ ui.pc = "idle"
    /\ tkq # <<>>
    /\ tkq' = Tail(tkq)
    /\ IF Head(tkq).f = "show"
       THEN /\ shown' = Head(tkq).frame
            /\ UNCHANGED ui
       ELSE /\ ui' = [ui EXCEPT !.pc = "read", !.runs = @ + 1]
            /\ UNCHANGED shown
    /\ UNCHANGED <<latest_jpg, render_busy, last_frame_bgr, rx, arrived, h_corrupt,
                   serverVars, configVars, servoVars, exitVars, taskVars, probeVars, bootVars, clientVars>>

\* line 39: data = self._latest_jpg
UiRead ==
    /\ ui.pc = "read"
    /\ ui' = [ui EXCEPT !.pc = "clear", !.data = latest_jpg]
    /\ UNCHANGED <<latest_jpg, render_busy, last_frame_bgr, shown, tkq, rx, arrived, h_corrupt,
                   serverVars, configVars, servoVars, exitVars, taskVars, probeVars, bootVars, clientVars>>

\* line 40 with the slot left as it is
UiClearKeeps ==
    /\ ui.pc = "clear"
    /\ ui' = [ui EXCEPT !.pc = "decode"]
    /\ UNCHANGED <<latest_jpg, render_busy, last_frame_bgr, shown, tkq, rx, arrived, h_corrupt,
                   serverVars, configVars, servoVars, exitVars, taskVars, probeVars, bootVars, clientVars>>

\* line 40: self._latest_jpg = None
UiClear ==
    /\ ui.pc = "clear"
    /\ latest_jpg' = None
    /\ ui' = [ui EXCEPT !.pc = "decode"]
    /\ UNCHANGED <<render_busy, last_frame_bgr, shown, tkq, rx, arrived, h_corrupt,
                   serverVars, configVars, servoVars, exitVars, taskVars, probeVars, bootVars, clientVars>>

\* lines 42-55: decode; a frame that decodes is kept and its display scheduled
UiDecode ==
    /\ ui.pc = "decode"
    /\ IF ui.data # None /\ ui.data.ok
       THEN /\ last_frame_bgr' = ui.data.id
            /\ tkq' = Append(tkq, Show(ui.data.id))
       ELSE UNCHANGED <<last_frame_bgr, tkq>>
    /\ ui' = [ui EXCEPT !.pc = "check", !.data = None]
    /\ UNCHANGED <<latest_jpg, render_busy, shown, rx, arrived, h_corrupt, serverVars, configVars, servoVars, exitVars, taskVars, probeVars, bootVars, clientVars>>

\* line 44: cv2.imdecode raises on bytes it rejects outright (an empty
\* buffer); nothing in _drain_and_render catches it, so lines 60-63 are not
\* reached and the callback ends
UiDecodeRaise ==
    /\ ui.pc = "decode"
    /\ ui.data # None
    /\ ~ui.data.ok
    /\ ui' = [ui EXCEPT !.pc = "idle", !.data = None]
    /\ UNCHANGED <<latest_jpg, render_busy, last_frame_bgr, shown, tkq, rx, arrived, h_corrupt,
                   serverVars, configVars, servoVars, exitVars, taskVars, probeVars, bootVars, clientVars>>

\* lines 60-61: if self._latest_jpg is not None, schedule another drain
UiCheck ==
    /\ ui.pc = "check"
    /\ IF latest_jpg # None
       THEN /\ tkq' = Append(tkq, Drain)
            /\ ui' = [ui EXCEPT !.pc = "idle"]
       ELSE /\ ui' = [ui EXCEPT !.pc = "clear_busy"]
            /\ UNCHANGED tkq
    /\ UNCHANGED <<latest_jpg, render_busy, last_frame_bgr, shown, rx, arrived, h_corrupt,
                   serverVars, configVars, servoVars, exitVars, taskVars, probeVars, bootVars, clientVars>>

\* line 63: self._render_busy = False
UiClearBusy ==
    /\ ui.pc = "clear_busy"
    /\ render_busy' = FALSE
    /\ ui' = [ui EXCEPT !.pc = "idle"]
    /\ UNCHANGED <<latest_jpg, last_frame_bgr, shown, tkq, rx, arrived, h_corrupt,
                   serverVars, configVars, servoVars, exitVars, taskVars, probeVars, bootVars, clientVars>>

----------------------------------------------------------------------------
(* The servo: on_servo_get and on_servo_set, lines 315-342 *)

SERVO_MIN_DEG == 0
SERVO_MAX_DEG == 90
SERVO_MIN_US == 500
SERVO_MAX_US == 2400
SERVO_DEFAULT_DEG == 90
InitServoTrimUs == 0    \* SERVO_TRIM_US = 0

\* int(x) on a ratio n/d with d > 0: truncation toward zero
Trunc(n, d) == IF n >= 0 THEN n \div d ELSE -((-n) \div d)

\* an angle stored as it was sent
ClampDegNone(deg) == deg

\* _clamp_deg: max(SERVO_MIN_DEG, min(SERVO_MAX_DEG, float(deg)))
ClampDeg(deg) == Clamp(SERVO_MIN_DEG, SERVO_MAX_DEG, deg)

\* _deg_to_us with the trim in force:
\* int(SERVO_MIN_US + (SERVO_MAX_US - SERVO_MIN_US) * (deg / 180.0) + SERVO_TRIM_US)
DegToUs(deg, trim) ==
    Trunc((SERVO_MIN_US + trim) * 180 + (SERVO_MAX_US - SERVO_MIN_US) * ClampDeg(deg), 180)

\* int(data["trim_us"]): ok with the integer, or the ValueError/TypeError
ParseInt(x) == IF x.t = "num" THEN [ok |-> TRUE, v |-> x.v] ELSE [ok |-> FALSE, v |-> 0]

NoServoReq == [trim_us |-> Absent, angle |-> Absent, delta |-> Absent]
SrvIdle == [pc |-> "idle", cmd |-> "none", req |-> NoServoReq, ok |-> FALSE,
            before |-> [angle |-> 0, trim |-> 0],
            rep |-> [angle |-> 0, us |-> 0, trim_us |-> 0]]

\* servo_set payloads: the values under "trim_us", "angle" and "delta"
ServoPayloads ==
    { [trim_us |-> Absent,   angle |-> Num(45),  delta |-> Absent],
      [trim_us |-> Absent,   angle |-> Num(120), delta |-> Absent],
      [trim_us |-> Absent,   angle |-> Absent,   delta |-> Num(-45)],
      [trim_us |-> Absent,   angle |-> Num(0),   delta |-> Num(45)],
      [trim_us |-> Num(100), angle |-> Absent,   delta |-> Absent],
      [trim_us |-> Num(100), angle |-> Str,      delta |-> Absent],
      [trim_us |-> Str,      angle |-> Num(45),  delta |-> Absent],
      [trim_us |-> Absent,   angle |-> Absent,   delta |-> Str] }

\* lines 158-159: the default angle, clamped, is written at start-up
InitServo ==
    /\ SERVO_ANGLE_DEG = ClampDeg(SERVO_DEFAULT_DEG)
    /\ SERVO_TRIM_US = InitServoTrimUs
    /\ servo_us = DegToUs(ClampDeg(SERVO_DEFAULT_DEG), InitServoTrimUs)
    /\ srv = SrvIdle

\* the acknowledgement fields "angle", "us" and "trim_us"
ServoReport(us) == [angle |-> SERVO_ANGLE_DEG, us |-> us, trim_us |-> SERVO_TRIM_US]

\* on_servo_set starts on its payload; srv.before is history, the angle and
\* trim when the command arrived
ServoSetBegin ==
    /\ srv.pc = "idle"
    /\ \E d \in ServoPayloads :
         srv' = [SrvIdle EXCEPT !.pc = "trim", !.cmd = "servo_set", !.req = d,
                                !.before = [angle |-> SERVO_ANGLE_DEG,
                                            trim |-> SERVO_TRIM_US]]
    /\ UNCHANGED <<SERVO_ANGLE_DEG, SERVO_TRIM_US, servo_us,
                   serverVars, configVars, frameVars, exitVars, taskVars, probeVars, bootVars, clientVars>>

\* lines 332-333: if "trim_us" in data: SERVO_TRIM_US = int(data["trim_us"])
ServoSetTrim ==
    /\ srv.pc = "trim"
    /\ LET x == srv.req.trim_us
           v == ParseInt(x)
       IN  IF x.t = "absent"
           THEN /\ srv' = [srv EXCEPT !.pc = "angle"]
                /\ UNCHANGED SERVO_TRIM_US
           ELSE IF v.ok
           THEN /\ SERVO_TRIM_US' = v.v
                /\ srv' = [srv EXCEPT !.pc = "angle"]
           ELSE /\ srv' = [srv EXCEPT !.pc = "reply", !.ok = FALSE]
                /\ UNCHANGED SERVO_TRIM_US
    /\ UNCHANGED <<SERVO_ANGLE_DEG, servo_us,
                   serverVars, configVars, frameVars, exitVars, taskVars, probeVars, bootVars, clientVars>>

\* lines 334-337: "angle" sets the angle, else "delta" moves it; both clamped
ServoSetAngle ==
    /\ srv.pc = "angle"
    /\ LET a == srv.req.angle
           d == srv.req.delta
           x == IF a.t # "absent" THEN a ELSE d
           v == ParseFloat(x)
           deg == IF a.t # "absent" THEN v.v ELSE SERVO_ANGLE_DEG + v.v
       IN  IF x.t = "absent"
           THEN /\ srv' = [srv EXCEPT !.pc = "write"]
                /\ UNCHANGED SERVO_ANGLE_DEG
           ELSE IF v.ok
           THEN /\ SERVO_ANGLE_DEG' = ClampDeg(deg)
                /\ srv' = [srv EXCEPT !.pc = "write"]
           ELSE /\ srv' = [srv EXCEPT !.pc = "reply", !.ok = FALSE]
                /\ UNCHANGED SERVO_ANGLE_DEG
    /\ UNCHANGED <<SERVO_TRIM_US, servo_us,
                   serverVars, configVars, frameVars, exitVars, taskVars, probeVars, bootVars, clientVars>>

\* lines 338-340: compute the pulse, write it, acknowledge
ServoSetWrite ==
    /\ srv.pc = "write"
    /\ servo_us' = DegToUs(SERVO_ANGLE_DEG, SERVO_TRIM_US)
    /\ srv' = [srv EXCEPT !.pc = "reply", !.ok = TRUE,
                          !.rep = ServoReport(DegToUs(SERVO_ANGLE_DEG, SERVO_TRIM_US))]
    /\ UNCHANGED <<SERVO_ANGLE_DEG, SERVO_TRIM_US,
                   serverVars, configVars, frameVars, exitVars, taskVars, probeVars, bootVars, clientVars>>

\* on_servo_get, lines 316-326: the angle and the pulse computed from it
ServoGet ==
    /\ srv.pc = "idle"
    /\ srv' = [SrvIdle EXCEPT !.pc = "reply", !.cmd = "servo_get", !.ok = TRUE,
                              !.rep = ServoReport(DegToUs(SERVO_ANGLE_DEG, SERVO_TRIM_US))]
    /\ UNCHANGED <<SERVO_ANGLE_DEG, SERVO_TRIM_US, servo_us,
                   serverVars, configVars, frameVars, exitVars, taskVars, probeVars, bootVars, clientVars>>

\* on_get_status, lines 276-281: the snapshot's "servo" entry, which has the
\* angle and the pulse and no trim
ServoGetStatus ==
    /\ srv.pc = "idle"
    /\ srv' = [SrvIdle EXCEPT !.pc = "reply", !.cmd = "get_status", !.ok = TRUE,
                              !.rep = [angle |-> SERVO_ANGLE_DEG,
                                       us |-> DegToUs(SERVO_ANGLE_DEG, SERVO_TRIM_US),
                                       trim_us |-> 0]]
    /\ UNCHANGED <<SERVO_ANGLE_DEG, SERVO_TRIM_US, servo_us,
                   serverVars, configVars, frameVars, exitVars, taskVars, probeVars, bootVars, clientVars>>

\* the acknowledgement is delivered and the handler ends
ServoReturn ==
    /\ srv.pc = "reply"
    /\ srv' = SrvIdle
    /\ UNCHANGED <<SERVO_ANGLE_DEG, SERVO_TRIM_US, servo_us,
                   serverVars, configVars, frameVars, exitVars, taskVars, probeVars, bootVars, clientVars>>

----------------------------------------------------------------------------
(* One controller: a single drive, then the link is lost *)

\* the one drive(1, 1) of the episode
EpisodeDriveBegin ==
    /\ handler["c1"].pc = "idle"
    /\ h_last.cmd = "none"
    /\ handler' = [handler EXCEPT !["c1"] =
                      DriveParse([left |-> Num(100), right |-> Num(100)])]
    /\ UNCHANGED <<clock, last_drive, drive_lock, motor_lock, cur, pins, loop,
                   h_last, configVars, frameVars, servoVars, exitVars, taskVars, probeVars, bootVars, clientVars>>

\* on_disconnect, lines 77-80: the sid leaves _clients and nothing else
\* changes; pc "gone" is a closed connection, which sends no more commands
Disconnect(c) ==
    /\ handler[c].pc = "idle"
    /\ handler' = [handler EXCEPT ![c].pc = "gone"]
    /\ UNCHANGED <<clock, last_drive, drive_lock, motor_lock, cur, pins, loop,
                   h_last, configVars, frameVars, servoVars, exitVars, taskVars, probeVars, bootVars, clientVars>>

----------------------------------------------------------------------------
(* Process exit: _on_exit, lines 358-378, registered with atexit.  The      *)
(* background tasks are still running while it executes.                    *)

\* lines 359-368: the camera is stopped and the servo pulse written again
ExitBegin ==
    /\ exit.pc = "running"
    /\ exit' = [exit EXCEPT !.pc = "stop_lock"]
    /\ servo_us' = DegToUs(SERVO_ANGLE_DEG, SERVO_TRIM_US)
    /\ UNCHANGED <<SERVO_ANGLE_DEG, SERVO_TRIM_US, srv,
                   serverVars, configVars, frameVars, taskVars, probeVars, bootVars, clientVars>>

\* line 370, stop_all(brake=False): take _motor_lock, skip the brake
ExitStopAllEnter ==
    /\ exit.pc = "stop_lock"
    /\ motor_lock = "free"
    /\ motor_lock' = "exit"
    /\ exit' = [exit EXCEPT !.pc = "stop_coast"]
    /\ UNCHANGED <<clock, last_drive, drive_lock, cur, pins, loop, handler,
                   h_last, configVars, frameVars, servoVars, taskVars, probeVars, bootVars, clientVars>>

\* stop_all, lines 219-221: both lines low, PWM 0, on both channels
ExitStopCoast ==
    /\ exit.pc = "stop_coast"
    /\ pins' = [s \in Sides |-> CoastPins]
    /\ exit' = [exit EXCEPT !.pc = "stop_cur"]
    /\ UNCHANGED <<clock, last_drive, drive_lock, motor_lock, cur, loop, handler,
                   h_last, configVars, frameVars, servoVars, taskVars, probeVars, bootVars, clientVars>>

\* stop_all, lines 222-223, and the release of _motor_lock
ExitStopCur ==
    /\ exit.pc = "stop_cur"
    /\ cur' = [s \in Sides |-> Stopped]
    /\ motor_lock' = "free"
    /\ exit' = [exit EXCEPT !.pc = "pi_stop"]
    /\ UNCHANGED <<clock, last_drive, drive_lock, pins, loop, handler,
                   h_last, configVars, frameVars, servoVars, taskVars, probeVars, bootVars, clientVars>>

\* line 374: pi.stop() releases the pigpio handle; the lines keep the last
\* levels written, recorded in exit.pins, and later writes reach no hardware
ExitPiStop ==
    /\ exit.pc = "pi_stop"
    /\ exit' = [pc |-> "released", pins |-> pins]
    /\ UNCHANGED <<serverVars, configVars, frameVars, servoVars, taskVars, probeVars, bootVars, clientVars>>

ExitStep ==
    \/ ExitBegin
    \/ ExitStopAllEnter
    \/ ExitStopCoast
    \/ ExitStopCur
    \/ ExitPiStop

----------------------------------------------------------------------------
(* A pigpio call that raises.  Neither _drive_apply_loop nor on_stop has a   *)
(* try block around its hardware writes.                                     *)

\* a write of _set_speed_one raises inside the tick, lines 259-261: the with
\* block releases _motor_lock, the exception leaves _drive_apply_loop and the
\* background task ends; the handlers go on.  now keeps the time of the fault.
LoopHwFault ==
    /\ loop.pc \in {"hw", "kick"}
    /\ loop' = [loop EXCEPT !.pc = "dead", !.now = clock]
    /\ motor_lock' = "free"
    /\ UNCHANGED <<clock, last_drive, drive_lock, cur, pins, handler,
                   h_last, configVars, frameVars, servoVars, exitVars, taskVars, probeVars, bootVars, clientVars>>

\* the coast write of stop_all raises inside on_stop, lines 219-221: the with
\* block releases _motor_lock and the handler ends without an acknowledgement
StopFault(c) ==
    /\ handler[c].pc = "stop_coast"
    /\ handler' = [handler EXCEPT ![c] = Idle]
    /\ motor_lock' = "free"
    /\ UNCHANGED <<clock, last_drive, drive_lock, cur, pins, loop,
                   h_last, configVars, frameVars, servoVars, exitVars, taskVars, probeVars, bootVars, clientVars>>

----------------------------------------------------------------------------
(* The background tasks stream_camera, lines 82-95, and                      *)
(* _status_broadcast_loop, lines 344-355                                     *)

ENSURE_TRIES == 10      \* ensure_camera(tries=10)

\* _clients: the connections that have not disconnected
Connected == { c \in Conns : handler[c].pc # "gone" }

\* sent: a frame was emitted in this cycle; fail: this cycle met a failure;
\* failed and again are history: some cycle failed, and a frame was emitted
\* in a cycle after it
CamIdle == [pc |-> "check", tries |-> 0, sent |-> FALSE, fail |-> FALSE,
            failed |-> FALSE, again |-> FALSE]
\* out is the status last delivered; sent, fail, failed and again as for the
\* camera, a cycle being one interval
NoStatus == [left |-> Stopped, right |-> Stopped, speed_limit |-> 0,
             trim |-> [s \in Sides |-> 0], angle |-> 0, us |-> 0]
StatIdle == [pc |-> "emit", out |-> NoStatus, sent |-> FALSE, fail |-> FALSE,
             failed |-> FALSE, again |-> FALSE]

InitTasks ==
    /\ picam2 = FALSE
    /\ cam = CamIdle
    /\ stat = StatIdle

\* a producer that an exception ends
CamUncaught(c) == [c EXCEPT !.pc = "dead", !.fail = TRUE, !.failed = TRUE]

\* lines 92-94: except Exception: pass, and on to the sleep of line 95
CamCaught(c) == [c EXCEPT !.pc = "sleep", !.fail = TRUE, !.failed = TRUE]

\* line 86: if _clients
CamCheck ==
    /\ cam.pc = "check"
    /\ cam' = [cam EXCEPT !.pc = IF Connected # {} THEN "open" ELSE "sleep"]
    /\ UNCHANGED <<picam2, stat, serverVars, configVars, frameVars, servoVars, exitVars,
                   probeVars, bootVars, clientVars>>

\* ensure_camera, lines 42-44: a camera already open is returned
CamEnsure ==
    /\ cam.pc = "open"
    /\ cam' = [cam EXCEPT !.pc = IF picam2 THEN "capture" ELSE "try"]
    /\ UNCHANGED <<picam2, stat, serverVars, configVars, frameVars, servoVars, exitVars,
                   probeVars, bootVars, clientVars>>

\* ensure_camera, lines 46-56: the camera opens and starts
CamTryOk ==
    /\ cam.pc = "try"
    /\ picam2' = TRUE
    /\ cam' = [cam EXCEPT !.pc = "capture"]
    /\ UNCHANGED <<stat, serverVars, configVars, frameVars, servoVars, exitVars, probeVars, bootVars, clientVars>>

\* ensure_camera, lines 57-60: an attempt raises; after the last one
\* RuntimeError leaves ensure_camera
CamTryFail ==
    /\ cam.pc = "try"
    /\ cam' = IF cam.tries + 1 < ENSURE_TRIES
              THEN [cam EXCEPT !.tries = cam.tries + 1]
              ELSE CamCaught([cam EXCEPT !.tries = cam.tries + 1])
    /\ UNCHANGED <<picam2, stat, serverVars, configVars, frameVars, servoVars, exitVars,
                   probeVars, bootVars, clientVars>>

\* line 88: cam.capture_array()
CamCaptureOk ==
    /\ cam.pc = "capture"
    /\ cam' = [cam EXCEPT !.pc = "encode"]
    /\ UNCHANGED <<picam2, stat, serverVars, configVars, frameVars, servoVars, exitVars,
                   probeVars, bootVars, clientVars>>

CamCaptureFail ==
    /\ cam.pc = "capture"
    /\ cam' = CamCaught(cam)
    /\ UNCHANGED <<picam2, stat, serverVars, configVars, frameVars, servoVars, exitVars,
                   probeVars, bootVars, clientVars>>

\* lines 89-90: cv2.imencode returns ok
CamEncodeOk ==
    /\ cam.pc = "encode"
    /\ cam' = [cam EXCEPT !.pc = "emit"]
    /\ UNCHANGED <<picam2, stat, serverVars, configVars, frameVars, servoVars, exitVars,
                   probeVars, bootVars, clientVars>>

\* lines 89-90: cv2.imencode returns not ok, and line 91 is skipped
CamEncodeNotOk ==
    /\ cam.pc = "encode"
    /\ cam' = [cam EXCEPT !.pc = "sleep", !.fail = TRUE, !.failed = TRUE]
    /\ UNCHANGED <<picam2, stat, serverVars, configVars, frameVars, servoVars, exitVars,
                   probeVars, bootVars, clientVars>>

\* line 89: cv2.imencode raises
CamEncodeFail ==
    /\ cam.pc = "encode"
    /\ cam' = CamCaught(cam)
    /\ UNCHANGED <<picam2, stat, serverVars, configVars, frameVars, servoVars, exitVars,
                   probeVars, bootVars, clientVars>>

\* line 91: sio.emit("video_frame", ...)
CamEmitOk ==
    /\ cam.pc = "emit"
    /\ cam' = [cam EXCEPT !.pc = "sleep", !.sent = TRUE, !.again = cam.failed]
    /\ UNCHANGED <<picam2, stat, serverVars, configVars, frameVars, servoVars, exitVars,
                   probeVars, bootVars, clientVars>>

CamEmitFail ==
    /\ cam.pc = "emit"
    /\ cam' = CamCaught(cam)
    /\ UNCHANGED <<picam2, stat, serverVars, configVars, frameVars, servoVars, exitVars,
                   probeVars, bootVars, clientVars>>

\* line 95: sio.sleep(1 / VIDEO_FPS), and the next cycle
CamSleep ==
    /\ cam.pc = "sleep"
    /\ cam' = [cam EXCEPT !.pc = "check", !.tries = 0, !.sent = FALSE, !.fail = FALSE]
    /\ UNCHANGED <<picam2, stat, serverVars, configVars, frameVars, servoVars, exitVars,
                   probeVars, bootVars, clientVars>>

CamStep ==
    \/ CamCheck
    \/ CamEnsure
    \/ CamTryOk
    \/ CamTryFail
    \/ CamCaptureOk
    \/ CamCaptureFail
    \/ CamEncodeOk
    \/ CamEncodeNotOk
    \/ CamEncodeFail
    \/ CamEmitOk
    \/ CamEmitFail
    \/ CamSleep

\* a status loop that an exception ends
StatUncaught(s) == [s EXCEPT !.pc = "dead", !.fail = TRUE, !.failed = TRUE]

\* lines 353-354: except Exception: pass, and on to the sleep of line 355
StatCaught(s) == [s EXCEPT !.pc = "sleep", !.fail = TRUE, !.failed = TRUE]

\* the payload of lines 348-351
StatusPayload ==
    [left |-> cur["L"], right |-> cur["R"], speed_limit |-> SPEED_LIMIT, trim |-> TRIM,
     angle |-> SERVO_ANGLE_DEG, us |-> DegToUs(SERVO_ANGLE_DEG, SERVO_TRIM_US)]

\* lines 346-352: if _clients, the status is emitted to all of them
StatusEmitOk ==
    /\ stat.pc = "emit"
    /\ stat' = IF Connected # {}
               THEN [stat EXCEPT !.pc = "sleep", !.out = StatusPayload, !.sent = TRUE,
                                 !.again = stat.failed]
               ELSE [stat EXCEPT !.pc = "sleep"]
    /\ UNCHANGED <<picam2, cam, serverVars, configVars, frameVars, servoVars, exitVars,
                   probeVars, bootVars, clientVars>>

\* line 347: sio.emit raises
StatusEmitFail ==
    /\ stat.pc = "emit"
    /\ Connected # {}
    /\ stat' = StatCaught(stat)
    /\ UNCHANGED <<picam2, cam, serverVars, configVars, frameVars, servoVars, exitVars,
                   probeVars, bootVars, clientVars>>

\* line 355: sio.sleep(0.3), and the next interval
StatusSleep ==
    /\ stat.pc = "sleep"
    /\ stat' = [stat EXCEPT !.pc = "emit", !.sent = FALSE, !.fail = FALSE]
    /\ UNCHANGED <<picam2, cam, serverVars, configVars, frameVars, servoVars, exitVars,
                   probeVars, bootVars, clientVars>>

StatusStep ==
    \/ StatusEmitOk
    \/ StatusEmitFail
    \/ StatusSleep

----------------------------------------------------------------------------
(* _set_speed_one's arithmetic, lines 181-195 and 210, on two inputs a and b *)
(* under one calibration                                                     *)

ProbeSpeeds == {-150, -100, -50, -20, -1, 0, 1, 20, 50, 100, 150}
ProbeLimits == {0, InitSpeedLimit, 50, 100}
ProbeTrims == {50, InitTrim, 200}

\* line 190 and line 210: the duty _set_speed_one stores for a magnitude
StoredDuty(mag) == IF mag < EPS THEN 0 ELSE TargetDuty(mag)

\* the direction, magnitude and stored duty of one call
SetSpeedOne(side, speed, limit, trim) ==
    LET mag == Magnitude(side, speed, limit, trim)
    IN  [dir |-> IF mag < EPS THEN 0 ELSE Direction(side, speed),
         mag |-> mag,
         duty |-> StoredDuty(mag)]

NoResult == [dir |-> 0, mag |-> 0, duty |-> 0]
ProbeIdle == [pc |-> "idle", a |-> 0, b |-> 0, limit |-> 0,
              trim |-> [s \in Sides |-> 0],
              ra |-> [s \in Sides |-> NoResult], rb |-> [s \in Sides |-> NoResult]]

InitProbe == probe = ProbeIdle

InitProbeInputs ==
    \E a \in ProbeSpeeds, b \in ProbeSpeeds, limit \in ProbeLimits,
       tl \in ProbeTrims, tr \in ProbeTrims :
        probe = [ProbeIdle EXCEPT !.pc = "in", !.a = a, !.b = b, !.limit = limit,
                                  !.trim = [s \in Sides |-> IF s = "L" THEN tl ELSE tr]]

\* both inputs go through _set_speed_one on both sides
ProbeApply ==
    /\ probe.pc = "in"
    /\ probe' = [probe EXCEPT
                    !.pc = "done",
                    !.ra = [s \in Sides |-> SetSpeedOne(s, probe.a, probe.limit, probe.trim)],
                    !.rb = [s \in Sides |-> SetSpeedOne(s, probe.b, probe.limit, probe.trim)]]
    /\ UNCHANGED <<serverVars, configVars, frameVars, servoVars, exitVars, taskVars, bootVars, clientVars>>

----------------------------------------------------------------------------
(* Starting the background tasks: on_connect, lines 65-75, and __main__, lines 381-389 *)

Tasks == {"camera_task", "status_task", "drive_task"}

\* the order of the three "if not hasattr" blocks of on_connect, lines 70-75
ConnectOrder == <<"camera_task", "status_task", "drive_task">>

\* the order of the two blocks of __main__, lines 383-386
MainOrder == <<"status_task", "drive_task">>

\* the sockets that connect
BootConns == {"c1", "c2", "c3"}

Off == [at |-> "off", i |-> 0]

\* module load has finished: sio has none of the task attributes, nothing runs
InitBoot ==
    boot = [attrs |-> {}, started |-> [t \in Tasks |-> 0],
            main |-> [at |-> "check", i |-> 1],
            conn |-> [c \in BootConns |-> Off]]

\* the position after block i of a sequence of n blocks
AfterBlock(i, n) == IF i < n THEN [at |-> "check", i |-> i + 1] ELSE [at |-> "done", i |-> 0]

\* lines 383 and 385: if not hasattr(sio, ...)
MainCheck ==
    /\ boot.main.at = "check"
    /\ boot' = [boot EXCEPT !.main = IF MainOrder[boot.main.i] \in boot.attrs
                                     THEN AfterBlock(boot.main.i, Len(MainOrder))
                                     ELSE [boot.main EXCEPT !.at = "start"]]
    /\ UNCHANGED <<serverVars, configVars, frameVars, servoVars, exitVars, taskVars, probeVars, clientVars>>

\* lines 384 and 386: the task is started and the attribute set; after the
\* second block sio.run (line 389) begins to serve
MainStart ==
    /\ boot.main.at = "start"
    /\ LET t == MainOrder[boot.main.i]
       IN  boot' = [boot EXCEPT !.attrs = @ \cup {t},
                                !.started[t] = @ + 1,
                                !.main = AfterBlock(boot.main.i, Len(MainOrder))]
    /\ UNCHANGED <<serverVars, configVars, frameVars, servoVars, exitVars, taskVars, probeVars, clientVars>>

\* a socket connects to the serving process: on_connect is entered, line 67
ConnectBegin(c) ==
    /\ boot.main.at = "done"
    /\ boot.conn[c] = Off
    /\ boot' = [boot EXCEPT !.conn[c] = [at |-> "check", i |-> 1]]
    /\ UNCHANGED <<serverVars, configVars, frameVars, servoVars, exitVars, taskVars, probeVars, clientVars>>

\* lines 70, 72, 74: if not hasattr(sio, ...)
ConnectCheck(c) ==
    /\ boot.conn[c].at = "check"
    /\ boot' = [boot EXCEPT !.conn[c] = IF ConnectOrder[boot.conn[c].i] \in boot.attrs
                                        THEN AfterBlock(boot.conn[c].i, Len(ConnectOrder))
                                        ELSE [boot.conn[c] EXCEPT !.at = "start"]]
    /\ UNCHANGED <<serverVars, configVars, frameVars, servoVars, exitVars, taskVars, probeVars, clientVars>>

\* lines 71, 73, 75: sio.<task> = sio.start_background_task(...)
ConnectStart(c) ==
    /\ boot.conn[c].at = "start"
    /\ LET t == ConnectOrder[boot.conn[c].i]
       IN  boot' = [boot EXCEPT !.attrs = @ \cup {t},
                                !.started[t] = @ + 1,
                                !.conn[c] = AfterBlock(boot.conn[c].i, Len(ConnectOrder))]
    /\ UNCHANGED <<serverVars, configVars, frameVars, servoVars, exitVars, taskVars, probeVars, clientVars>>

\* on_connect returns; later the socket goes away (on_disconnect, lines 77-80)
ConnectEnd(c) ==
    /\ boot.conn[c].at = "done"
    /\ boot' = [boot EXCEPT !.conn[c] = [at |-> "gone", i |-> 0]]
    /\ UNCHANGED <<serverVars, configVars, frameVars, servoVars, exitVars, taskVars, probeVars, clientVars>>

----------------------------------------------------------------------------
(* The viewer's keyboard: InputHandler, client/control/input_handler.py *)

DriveKeys == {"Up", "Down", "Left", "Right"}

\* the keys pressed and released: the drive keys, a servo key and the photo key
Keys == DriveKeys \cup {"w", "space"}

NoKey == [ev |-> "none", key |-> "none", before |-> {}, sent |-> "none", left |-> 0, right |-> 0]

\* lines 27-34: the wheel speeds of each drive key
KeyDrive(k) ==
    CASE k = "Up"    -> [left |-> 1,  right |-> 1]
      [] k = "Down"  -> [left |-> -1, right |-> -1]
      [] k = "Left"  -> [left |-> -1, right |-> 1]
      [] k = "Right" -> [left |-> 1,  right |-> -1]

\* line 61 with the test always false
NoDriveHeld(pressed) == FALSE

\* line 61: any(k in self.drive_pressed for k in ("Up", "Down", "Left", "Right"))
AnyDriveHeld(pressed) == \E k \in DriveKeys : k \in pressed

\* on_key_press, lines 17-52
KeyPress(k) ==
    /\ IF k \in DriveKeys
       THEN IF k \in drive_pressed
            THEN /\ kb' = [NoKey EXCEPT !.ev = "press", !.key = k, !.before = drive_pressed]
                 /\ UNCHANGED drive_pressed
            ELSE /\ drive_pressed' = drive_pressed \cup {k}
                 /\ kb' = [ev |-> "press", key |-> k, before |-> drive_pressed, sent |-> "drive",
                           left |-> KeyDrive(k).left, right |-> KeyDrive(k).right]
       ELSE /\ kb' = [NoKey EXCEPT !.ev = "press", !.key = k, !.before = drive_pressed,
                                   !.sent = IF k = "space" THEN "photo" ELSE "servo"]
            /\ UNCHANGED drive_pressed
    /\ UNCHANGED <<ui_time, timers, handles, slider, serverVars, configVars, frameVars, servoVars, exitVars, taskVars, probeVars, bootVars>>

\* on_key_release, lines 54-62
KeyRelease(k) ==
    /\ drive_pressed' = drive_pressed \ {k}
    /\ kb' = [NoKey EXCEPT !.ev = "release", !.key = k, !.before = drive_pressed,
                           !.sent = IF AnyDriveHeld(drive_pressed') THEN "none" ELSE "stop"]
    /\ UNCHANGED <<ui_time, timers, handles, slider, serverVars, configVars, frameVars, servoVars, exitVars, taskVars, probeVars, bootVars>>

----------------------------------------------------------------------------
(* The viewer's sliders: SettingsService, client/services/settings_service.py *)

DEBOUNCE_MS == 150

\* the longest the clock moves in one step, the end of the clock, and the
\* number of slider changes
StepMs == 50
MaxUiTime == 300
MaxChanges == 3

Settings == {"speed", "L", "R"}

\* slider positions, in percent
Percents == {30, 80}

JobAttrs == {"_speed_job", "_trim_left_job", "_trim_right_job", "_trim_l_job", "_trim_r_job"}

\* every setting keeping its handle in the same attribute
JobAttrShared(setting) == "_speed_job"

\* lines 20, 26 and line 30: the attribute that holds the setting's timer handle
JobAttr(setting) ==
    CASE setting = "speed" -> "_speed_job"
      [] setting = "L"     -> "_trim_l_job"
      [] setting = "R"     -> "_trim_r_job"

\* lines 24 and 37: percent / 100.0, in hundredths
ToFraction(percent) == percent

NoChange == [at |-> -1, val |-> 0]

\* __init__, lines 14-16: the handles are None; no timer is pending
InitSettings ==
    /\ ui_time = 0
    /\ timers = {}
    /\ handles = [a \in JobAttrs |-> 0]
    /\ slider = [last |-> [x \in Settings |-> NoChange], sent |-> <<>>, n |-> 0]

InitClient ==
    /\ drive_pressed = {}
    /\ kb = NoKey
    /\ InitSettings

\* a pending timer has come due
Due == \E t \in timers : t.due <= ui_time

\* set_speed_limit_debounced and set_trim_debounced, lines 18-40: the timer the
\* attribute names is cancelled, a new one is set and its handle stored
SliderChange(setting, percent) ==
    LET attr == JobAttr(setting)
        id   == slider.n + 1
    IN  /\ ~Due
        /\ slider.n < MaxChanges
        /\ timers' = {t \in timers : t.id # handles[attr]}
                        \cup {[id |-> id, setting |-> setting, val |-> percent,
                               due |-> ui_time + DEBOUNCE_MS]}
        /\ handles' = [handles EXCEPT ![attr] = id]
        /\ slider' = [slider EXCEPT !.last[setting] = [at |-> ui_time, val |-> percent],
                                    !.n = id]
        /\ UNCHANGED <<ui_time, drive_pressed, kb, serverVars, configVars, frameVars, servoVars, exitVars, taskVars, probeVars, bootVars>>

\* a timer that is due runs emit_speed or emit_trim, lines 23-24, 36-37 and
\* 42-62; the handle stays in its attribute
TimerFire ==
    \E t \in timers :
        /\ t.due <= ui_time
        /\ timers' = timers \ {t}
        /\ slider' = [slider EXCEPT !.sent = Append(@, [setting |-> t.setting,
                                                         val |-> ToFraction(t.val),
                                                         at |-> ui_time])]
        /\ UNCHANGED <<ui_time, handles, drive_pressed, kb, serverVars, configVars, frameVars, servoVars, exitVars, taskVars, probeVars, bootVars>>

\* time passes, no further than the next timer
TimePasses ==
    /\ ~Due
    /\ ui_time < MaxUiTime
    /\ \E d \in {StepMs, DEBOUNCE_MS} :
          LET limit == Min(ui_time + d, MaxUiTime)
              dues  == {t.due : t \in timers}
          IN  ui_time' = IF \E x \in dues : x <= limit
                         THEN CHOOSE x \in dues : \A y \in dues : x <= y
                         ELSE limit
    /\ UNCHANGED <<timers, handles, slider, drive_pressed, kb, serverVars, configVars, frameVars, servoVars, exitVars, taskVars, probeVars, bootVars>>

----------------------------------------------------------------------------
(* Specifications *)

\* _on_exit has not started; exit.pins is history, the lines at pi.stop()
ExitIdle == [pc |-> "running", pins |-> [s \in Sides |-> CoastPins]]
InitExit == exit = ExitIdle

Init == InitServer /\ InitConfig /\ InitFrame /\ InitServo /\ InitExit /\ InitTasks /\ InitProbe /\ InitBoot /\ InitClient

NextServer ==
    \/ Tick
    \/ LoopStep
    \/ \E c \in Conns : HandlerStep(c)

Next == NextServer

Spec == Init /\ [][Next]_vars

\* one connection drives and stops, the other polls get_status
NextStatus ==
    \/ Tick
    \/ LoopStep
    \/ HandlerStep("c1")
    \/ GetStatus("c2")
    \/ Return("c2")

SpecStatus == Init /\ [][NextStatus]_vars

NextConfig ==
    \/ SetSpeedLimit
    \/ SetTrimBegin
    \/ SetTrimKey
    \/ CfgGetStatus
    \/ CfgReturn

SpecConfig == Init /\ [][NextConfig]_vars

NextFrame ==
    \/ RxArrive
    \/ RxArriveCorrupt
    \/ RxCheck
    \/ RxSetBusy
    \/ RxSchedule
    \/ UiRun
    \/ UiRead
    \/ UiClear
    \/ UiDecode
    \/ UiDecodeRaise
    \/ UiCheck
    \/ UiClearBusy

SpecFrame == Init /\ [][NextFrame]_vars

NextMotor ==
    \/ Tick
    \/ LoopStep
    \/ MotorDriveBegin
    \/ DrivePublish("c1")
    \/ StopPublish("c1")
    \/ StopAllEnter("c1")
    \/ StopHold("c1")
    \/ StopCoast("c1")
    \/ StopCurL("c1")
    \/ StopCurR("c1")
    \/ StopAck("c1")
    \/ Return("c1")

InitMotor == InitServer /\ InitMotorConfig /\ InitFrame /\ InitServo /\ InitExit /\ InitTasks /\ InitProbe /\ InitBoot /\ InitClient

SpecMotor == InitMotor /\ [][NextMotor]_vars

NextEpisode ==
    \/ Tick
    \/ LoopStep
    \/ EpisodeDriveBegin
    \/ DrivePublish("c1")
    \/ Return("c1")
    \/ Disconnect("c1")

SpecEpisode == Init /\ [][NextEpisode]_vars

\* a controller that drives while the process is told to exit
NextExit ==
    \/ Tick
    \/ LoopStep
    \/ DriveBegin("c1")
    \/ DrivePublish("c1")
    \/ Return("c1")
    \/ ExitStep

SpecExit == Init /\ [][NextExit]_vars

NextServo ==
    \/ ServoSetBegin
    \/ ServoSetTrim
    \/ ServoSetAngle
    \/ ServoSetWrite
    \/ ServoGet
    \/ ServoGetStatus
    \/ ServoReturn

SpecServo == Init /\ [][NextServo]_vars

\* one controller, with hardware writes that can raise
NextFault ==
    \/ Tick
    \/ LoopStep
    \/ LoopHwFault
    \/ HandlerStep("c1")
    \/ StopFault("c1")

SpecFault == Init /\ [][NextFault]_vars

\* the frame producer beside the actuation loop: one drive(1, 1), and
\* clients that leave
NextCamera ==
    \/ LoopStep
    \/ EpisodeDriveBegin
    \/ DrivePublish("c1")
    \/ Return("c1")
    \/ CamStep
    \/ \E c \in Conns : Disconnect(c)

SpecCamera == Init /\ [][NextCamera]_vars

\* the status loop beside the actuation loop and the frame producer
NextBroadcast ==
    \/ LoopStep
    \/ EpisodeDriveBegin
    \/ DrivePublish("c1")
    \/ Return("c1")
    \/ CamStep
    \/ StatusStep

SpecBroadcast == Init /\ [][NextBroadcast]_vars

\* one drive(1, 1), with set_speed_limit commands arriving at any time
NextCalib ==
    \/ LoopStep
    \/ EpisodeDriveBegin
    \/ DrivePublish("c1")
    \/ Return("c1")
    \/ SetSpeedLimit
    \/ CfgReturn

SpecCalib == Init /\ [][NextCalib]_vars

\* two controllers and the exit hook contend for the locks
NextLocks ==
    \/ LoopStep
    \/ \E c \in Conns : HandlerStep(c)
    \/ ExitStep

SpecLocks == Init /\ [][NextLocks]_vars

NextBoot ==
    \/ MainCheck
    \/ MainStart
    \/ \E c \in BootConns : ConnectBegin(c)
    \/ \E c \in BootConns : ConnectCheck(c)
    \/ \E c \in BootConns : ConnectStart(c)
    \/ \E c \in BootConns : ConnectEnd(c)

SpecBoot == Init /\ [][NextBoot]_vars

NextKeys ==
    \/ \E k \in Keys : KeyPress(k)
    \/ \E k \in Keys : KeyRelease(k)

SpecKeys == Init /\ [][NextKeys]_vars

NextSliders ==
    \/ \E x \in Settings, v \in Percents : SliderChange(x, v)
    \/ TimerFire
    \/ TimePasses

SpecSliders == Init /\ [][NextSliders]_vars

InitProbeRun ==
    InitServer /\ InitConfig /\ InitFrame /\ InitServo /\ InitExit /\ InitTasks
    /\ InitProbeInputs /\ InitBoot /\ InitClient

NextProbe == ProbeApply

SpecProbe == InitProbeRun /\ [][NextProbe]_vars

----------------------------------------------------------------------------
(* Properties of the actuation loop and the command handlers *)

AllStopped == \A s \in Sides : cur[s] = Stopped
AllCoast == \A s \in Sides : pins[s] = CoastPins
AllBrake == \A s \in Sides : pins[s] = BrakePins

\* C1: with the intent of drive(1,1) in force and the watchdog window elapsed
\* at the tick's clock read, the tick takes the zero input and ends with both
\* sides reported (coast, 0) and both channels coasting; no step of the loop
\* puts a channel into the brake configuration.
C1_WatchdogStep ==
    (/\ loop.pc = "read_ts"
     /\ loop'.pc # "read_ts"
     /\ last_drive.left = 100 /\ last_drive.right = 100
     /\ loop.now - last_drive.ts > WATCHDOG_S)
    => (loop'.wd /\ loop'.L = 0 /\ loop'.R = 0 /\ loop'.pc = "acquire")
C1_TickEndStep ==
    (loop.wd /\ loop.seen = <<100, 100>> /\ loop.pc = "store_duty" /\ loop'.pc = "sleep")
    => (\A s \in Sides : cur'[s] = Stopped /\ pins'[s] = CoastPins)
C1_NoBrakeStep ==
    (loop' # loop) => \A s \in Sides : IsBrake(pins'[s]) => IsBrake(pins[s])
C1_WatchdogCoasts ==
    /\ []((loop.pc = "sleep" /\ loop.wd /\ loop.seen = <<100, 100>>) => AllStopped)
    /\ [][C1_WatchdogStep /\ C1_TickEndStep /\ C1_NoBrakeStep]_vars
C1_Witness ==
    /\ loop.pc = "sleep" /\ loop.wd /\ loop.seen = <<100, 100>>
    /\ last_drive.left = 100 /\ last_drive.right = 100
    /\ clock - last_drive.ts > WATCHDOG_S
    /\ h_last.cmd = "drive"
    /\ \A c \in Conns : handler[c].pc = "idle"
    /\ AllStopped /\ AllCoast

\* C3: a stop handler reaches the coast step only with both channels in the
\* brake configuration (both lines high, PWM 0) and the brake held for
\* BRAKE_TIME, and the coast step then puts both channels to coast.
C3_CoastStep ==
    \A c \in Conns :
        (handler[c].pc = "stop_coast" /\ handler'[c].pc # "stop_coast")
        => (AllBrake /\ handler[c].held = BRAKE_TIME /\ \A s \in Sides : pins'[s] = CoastPins)
C3_StopBrakesFirst ==
    /\ [](\A c \in Conns :
            /\ handler[c].pc \in {"stop_hold", "stop_coast"} => AllBrake
            /\ handler[c].pc \in {"stop_coast", "stop_curL", "stop_curR", "stop_ack"}
               => handler[c].held = BRAKE_TIME
            /\ handler[c].pc \in {"stop_curL", "stop_curR"} => AllCoast)
    /\ [][C3_CoastStep]_vars
C3_Witness ==
    \E c \in Conns :
        /\ handler[c].pc = "stop_coast"
        /\ cur["L"].dir # 0 /\ cur["R"].dir # 0
        /\ AllBrake

\* C4: every acknowledgement of stop reports (coast, 0) on both sides.
C4_StopAckCoast ==
    \A c \in Conns :
        (handler[c].pc = "reply" /\ handler[c].cmd = "stop")
        => (handler[c].rl = Stopped /\ handler[c].rr = Stopped)

\* C5: from the tick's read of the intent until the hardware writes made from
\* it, no command publishes an intent.
BeforeWrite ==
    \/ loop.pc \in {"read_left", "read_right", "acquire", "hw", "kick"}
    \/ (loop.pc \in {"store_dir", "store_duty"} /\ loop.side = "L")
C5_TickAtomic == [][BeforeWrite => last_drive' = last_drive]_vars

\* C7: the intent's (left, right) is that of the command whose write
\* completed last, whichever connection sent it.
C7_LastWriterWins ==
    /\ last_drive.left = h_last.left
    /\ last_drive.right = h_last.right
C7_Witness ==
    /\ handler["c1"].pc = "reply" /\ handler["c1"].cmd = "drive" /\ handler["c1"].ok
    /\ handler["c1"].req.left = Num(100)
    /\ handler["c2"].pc = "reply" /\ handler["c2"].cmd = "drive" /\ handler["c2"].ok
    /\ handler["c2"].req.left = Num(500)
    /\ last_drive.left = 100

\* C8: a drive whose left or right is not numeric is acknowledged ok:false and
\* the step that rejects it leaves the intent as it was.
NonNumeric(d) == d.left.t = "str" \/ d.right.t = "str"
C8_RejectStep ==
    \A c \in Conns :
        (handler'[c] # handler[c] /\ handler'[c].cmd = "drive" /\ NonNumeric(handler'[c].req))
        => last_drive' = last_drive
C8_NonNumericRejected ==
    /\ [](\A c \in Conns :
            (handler[c].cmd = "drive" /\ NonNumeric(handler[c].req))
            => (handler[c].pc = "reply" /\ ~handler[c].ok))
    /\ [][C8_RejectStep]_vars
C8_Witness ==
    \E c \in Conns :
        /\ handler[c].pc = "reply" /\ handler[c].cmd = "drive" /\ ~handler[c].ok
        /\ handler[c].req.right.t = "str"
        /\ last_drive.left = 500

\* C9: a drive whose left or right is numeric but outside [-1, 1] is
\* acknowledged ok:false and never reaches the intent.
OutOfRange(d) ==
    \/ (d.left.t = "num" /\ (d.left.v < -100 \/ d.left.v > 100))
    \/ (d.right.t = "num" /\ (d.right.v < -100 \/ d.right.v > 100))
C9_OutOfRangeRejected ==
    /\ \A c \in Conns :
         (handler[c].pc = "reply" /\ handler[c].cmd = "drive" /\ OutOfRange(handler[c].req))
         => ~handler[c].ok
    /\ last_drive.left \in -100..100
    /\ last_drive.right \in -100..100

\* C6: on each side, in the state whenever no thread is inside the motor lock
\* and in every snapshot acknowledged, duty is 0 exactly when dir is coast, and
\* a non-zero duty lies in [DUTY_MIN, DUTY_MAX].
DutyOk(m) ==
    /\ (m.duty = 0) <=> (m.dir = 0)
    /\ m.dir # 0 => (DUTY_MIN * DutyUnit <= m.duty /\ m.duty <= DUTY_MAX * DutyUnit)
C6_DutyInvariant ==
    /\ motor_lock = "free" => \A s \in Sides : DutyOk(cur[s])
    /\ \A c \in Conns :
         (handler[c].pc = "reply" /\ handler[c].cmd \in {"stop", "get_status"})
         => (DutyOk(handler[c].rl) /\ DutyOk(handler[c].rr))

\* C10: when a configuration command is acknowledged ok:false, speed_limit and
\* both trims are what they were when the command arrived.
C10_RejectedConfigUnchanged ==
    (cfg.pc = "reply" /\ ~cfg.ok)
    => (SPEED_LIMIT = cfg.before.sl /\ TRIM = cfg.before.trim)

----------------------------------------------------------------------------
(* Properties of the viewer *)

Quiescent == rx.pc = "idle" /\ ui.pc = "idle" /\ tkq = <<>>

\* C2: when every frame received decodes, then once the socket thread and the
\* UI thread have nothing left to run, the last frame received is the frame
\* decoded last and the frame shown.
C2_LastFrameRendered ==
    (Quiescent /\ arrived > 0 /\ ~h_corrupt)
    => (last_frame_bgr = rx.jpg.id /\ shown = rx.jpg.id)

\* C17: no step of the actuation loop changes the intent; the watchdog
\* branch zeroes the tick's L and R only, and left, right and ts stay those of
\* the last command.
C17_WatchdogStep ==
    (loop.pc = "read_ts" /\ loop' # loop /\ loop'.wd)
    => (loop'.L = 0 /\ loop'.R = 0 /\ last_drive' = last_drive)
C17_LoopKeepsIntent ==
    /\ [](last_drive.left = h_last.left /\ last_drive.right = h_last.right)
    /\ [][(loop' # loop => last_drive' = last_drive) /\ C17_WatchdogStep]_vars
C17_Witness ==
    /\ loop.wd /\ loop.pc = "store_duty" /\ loop.side = "R"
    /\ loop.L = 0 /\ loop.R = 0
    /\ h_last.cmd = "drive"
    /\ last_drive.left = 500 /\ last_drive.right = 100
    /\ clock - last_drive.ts > WATCHDOG_S

\* C18: the (left, right) a tick applies is the watchdog's (0, 0) or the pair
\* the intent held when the tick took the lock, which is the pair of the
\* command that wrote last; no command publishes between the two reads.
PairRead == loop.pc \in {"acquire", "hw", "kick", "store_dir", "store_duty"}
C18_ReadStep ==
    (loop.pc = "read_ts" /\ loop' # loop)
    => loop'.seen = <<h_last.left, h_last.right>>
C18_NoTornPair ==
    /\ [](PairRead => \/ (loop.wd /\ loop.L = 0 /\ loop.R = 0)
                       \/ (~loop.wd /\ <<loop.L, loop.R>> = loop.seen))
    /\ [][C18_ReadStep
          /\ (loop.pc \in {"read_left", "read_right"} => last_drive' = last_drive)]_vars
C18_Witness ==
    /\ loop.pc = "acquire" /\ ~loop.wd
    /\ loop.L = 500 /\ loop.R = 100
    /\ h_last.cmd = "stop" /\ last_drive.left = 0 /\ last_drive.right = 0
    /\ \E c \in Conns : handler[c].pc = "drive_pub"

\* C19: once the connection that sent the drive is gone and a tick has
\* neutralized its stale intent, no later tick of the episode performs the
\* neutralization again.
C19_OneSafeStop ==
    [][(/\ loop.pc = "read_ts" /\ loop' # loop
        /\ handler["c1"].pc = "gone"
        /\ loop.wd /\ loop.seen = <<100, 100>>)
       => ~loop'.wd]_vars

\* C20: when the pigpio handle is released both channels are neutral, and
\* between the exit hook's neutral write and the release no motor line is
\* written.
C20_LastWriteNeutral ==
    /\ exit.pc = "released" => \A s \in Sides : exit.pins[s] = CoastPins
    /\ exit.pc \in {"stop_cur", "pi_stop"} => AllCoast

----------------------------------------------------------------------------
(* Properties of _set_speed_one under the reachable calibrations *)

\* |clamp(value, -1, 1)| * clamp(speed_limit, 0, 1) * clamp(trim[side], 0, 2)
\* is below epsilon
BelowEps(side) ==
    Abs(Clamp(-100, 100, LoopSpeed(side))) * Clamp(0, 100, SPEED_LIMIT)
        * Clamp(0, 200, TRIM[side]) < EPS
InTick == motor_lock = "loop" /\ loop.pc \in {"hw", "kick", "store_dir", "store_duty"}

\* C14: a side whose effective magnitude is below epsilon gets both lines low
\* and PWM 0 with no kick, whatever its state was, and when the tick ends it
\* is reported (coast, 0) with its channel coasting.
C14_HwStep ==
    (loop.pc = "hw" /\ loop' # loop /\ BelowEps(loop.side))
    => /\ pins'[loop.side] = CoastPins
       /\ loop'.pc = "store_dir" /\ loop'.dir = 0 /\ loop'.target = 0
C14_TickEndStep ==
    (loop.pc = "store_duty" /\ loop.side = "R" /\ loop'.pc = "sleep")
    => \A s \in Sides :
         BelowEps(s) => (cur'[s] = Stopped /\ pins'[s] = CoastPins)
C14_BelowEpsCoasts ==
    /\ [](InTick =>
            /\ (loop.pc \in {"store_dir", "store_duty"} /\ BelowEps(loop.side))
               => (pins[loop.side] = CoastPins /\ loop.dir = 0 /\ loop.slept = 0)
            /\ (loop.side = "R" /\ BelowEps("L"))
               => (cur["L"] = Stopped /\ pins["L"] = CoastPins))
    /\ [][C14_HwStep /\ C14_TickEndStep]_vars
C14_Witness ==
    /\ loop.pc = "store_dir" /\ loop.side = "L" /\ BelowEps("L")
    /\ ~loop.wd /\ SPEED_LIMIT > 0 /\ TRIM["L"] > 0
    /\ cur["L"].dir # 0 /\ cur["L"].duty > 0
    /\ pins["L"] = CoastPins

\* C15: with speed_limit 0, every tick ends with both sides reported
\* (coast, 0) and both channels coasting, whatever the intent; no side is ever
\* reported moving and no PWM is ever on.
C15_TickEndStep ==
    (SPEED_LIMIT = 0 /\ loop.pc = "store_duty" /\ loop.side = "R" /\ loop'.pc = "sleep")
    => \A s \in Sides : cur'[s] = Stopped /\ pins'[s] = CoastPins
C15_ZeroLimitCoasts ==
    /\ [](SPEED_LIMIT = 0 => (AllStopped /\ \A s \in Sides : pins[s].pwm = 0))
    /\ [][C15_TickEndStep]_vars
C15_Witness ==
    /\ SPEED_LIMIT = 0
    /\ loop.pc = "store_duty" /\ loop.side = "R" /\ ~loop.wd
    /\ loop.L = 100 /\ loop.R = 100
    /\ TRIM["L"] > 0 /\ TRIM["R"] > 0
    /\ AllCoast

\* C16: a side is kicked exactly when its reported duty is 0 and its magnitude
\* is at least epsilon; the kick is PWM max(target, START_KICK_DUTY), held for
\* START_KICK_MS and followed by the target duty; the duty reported is the
\* target duty, which is the PWM left on the channel.
C16_HwStep ==
    (loop.pc = "hw" /\ loop' # loop)
    => /\ (loop'.pc = "kick") <=> (cur[loop.side].duty = 0 /\ ~BelowEps(loop.side))
       /\ loop'.pc = "kick"
          => pins'[loop.side].pwm = Max(loop'.target, START_KICK_DUTY * DutyUnit)
       /\ (loop'.pc = "store_dir" /\ ~BelowEps(loop.side))
          => (pins'[loop.side].pwm = loop'.target /\ loop'.slept = 0)
C16_SettleStep ==
    (loop.pc = "kick" /\ loop' # loop)
    => (loop'.slept = START_KICK_MS /\ pins'[loop.side].pwm = loop.target)
C16_StoreStep ==
    (loop.pc = "store_duty" /\ loop' # loop /\ loop.dir # 0)
    => (cur'[loop.side].duty = loop.target /\ pins[loop.side].pwm = loop.target)
C16_KickOnStart ==
    /\ [](/\ (InTick /\ loop.pc # "hw" /\ ~BelowEps(loop.side))
             => loop.target = TargetDuty(Magnitude(loop.side, LoopSpeed(loop.side),
                                                   SPEED_LIMIT, TRIM))
          /\ motor_lock = "free"
             => \A s \in Sides : (cur[s].duty = 0) <=> (cur[s].dir = 0))
    /\ [][C16_HwStep /\ C16_SettleStep /\ C16_StoreStep]_vars
C16_Witness ==
    /\ loop.pc = "kick"
    /\ cur[loop.side].duty = 0
    /\ loop.target < START_KICK_DUTY * DutyUnit
    /\ pins[loop.side].pwm = START_KICK_DUTY * DutyUnit
C16_ReversalReached ==
    /\ loop.pc = "store_dir" /\ loop.slept = 0 /\ loop.dir # 0
    /\ cur[loop.side].dir = -loop.dir

----------------------------------------------------------------------------
(* Properties of the servo and of the calibration commands *)

\* C11: when servo_set is acknowledged ok:false the angle and the trim offset
\* are what they were when the command arrived, and the pulse servo_get
\* reports is the pulse last written to the servo.
C11_RejectedServoUnchanged ==
    /\ (srv.pc = "reply" /\ srv.cmd = "servo_set" /\ ~srv.ok)
       => (SERVO_ANGLE_DEG = srv.before.angle /\ SERVO_TRIM_US = srv.before.trim)
    /\ (srv.pc = "reply" /\ srv.cmd = "servo_get") => srv.rep.us = servo_us

\* C12: a get_status that follows an accepted set_trim reports, for each side,
\* the value sent when it lies in [0, 2] and the earlier trim when the side was
\* not sent; one that follows an accepted set_speed_limit of a value in [0, 1]
\* reports that value.
C12_SetThenStatus ==
    (cfg.pc = "reply" /\ cfg.cmd = "get_status" /\ cfg.prev.ok)
    => /\ cfg.prev.cmd = "set_trim" =>
            \A s \in Sides :
                LET x == cfg.prev.trim[s]
                IN  /\ (x.t = "num" /\ x.v \in 0..200) => cfg.rep.trim[s] = x.v
                    /\ x.t = "absent" => cfg.rep.trim[s] = cfg.prev.before.trim[s]
       /\ (cfg.prev.cmd = "set_speed_limit" /\ cfg.prev.sl.v \in 0..100)
            => cfg.rep.sl = cfg.prev.sl.v
C12_Witness ==
    /\ cfg.pc = "reply" /\ cfg.cmd = "get_status"
    /\ cfg.prev.cmd = "set_trim" /\ cfg.prev.ok
    /\ cfg.prev.trim = [L |-> Num(0), R |-> Num(120)]
    /\ cfg.prev.before.trim = [L |-> 80, R |-> 200]
    /\ cfg.rep.trim = [L |-> 0, R |-> 120]

\* C13: speed_limit is in [0, 1] and both trims are in [0, 2].
C13_CalibrationInRange ==
    /\ SPEED_LIMIT \in 0..100
    /\ \A s \in Sides : TRIM[s] \in 0..200
C13_Witness ==
    /\ cfg.pc = "reply" /\ cfg.cmd = "set_speed_limit" /\ cfg.sl = Num(150)
    /\ SPEED_LIMIT = 100
    /\ cfg.prev.cmd = "set_trim" /\ cfg.prev.trim = [L |-> Absent, R |-> Num(250)]
    /\ TRIM["R"] = 200

----------------------------------------------------------------------------
(* Properties of the failure paths *)

\* C21: a hardware write that fails is fatal for the service, which does not
\* go on acknowledging drive commands: a drive received after the fault ended
\* the actuation loop is not acknowledged with ok
C21_FaultIsFatal ==
    [][\A c \in Conns :
          (/\ loop.pc = "dead"
           /\ handler[c].pc = "drive_pub"
           /\ handler[c].now > loop.now
           /\ handler'[c].pc = "reply") => ~handler'[c].ok]_vars

\* C22: a frame that fails to decode is dropped and the render task still
\* ends its cycle, by rescheduling itself or by clearing _render_busy: while
\* _render_busy is set a render task is running, queued, or about to be queued
C22_DecodeFailureContinues ==
    render_busy =>
        \/ ui.pc # "idle"
        \/ \E i \in 1..Len(tkq) : tkq[i] = Drain
        \/ rx.pc = "schedule"

\* C23: a failure of the frame source (camera open, capture or encode raising
\* or reporting failure) is not fatal: the cycle emits no frame and goes to
\* its sleep, the producer starts the next cycle, and no step of the producer
\* changes the state or the locks of the actuation loop
C23_CameraFaultNonFatal ==
    /\ [](/\ cam.pc # "dead"
          /\ cam.fail => (cam.pc = "sleep" /\ ~cam.sent))
    /\ [][cam' # cam => UNCHANGED <<serverVars, stat>>]_vars
    /\ [][(cam.pc = "sleep" /\ cam' # cam) => cam'.pc = "check"]_vars

\* a frame is emitted in a cycle after one that failed
C23_Witness == cam.failed /\ cam.again /\ cam.sent /\ ~cam.fail

\* C24: a failure while emitting the status broadcast is swallowed: the
\* interval delivers nothing and goes to its sleep, the loop starts the next
\* interval, and no step of the status loop changes the state or the locks
\* of the actuation loop or of the frame producer
C24_StatusFaultSwallowed ==
    /\ [](/\ stat.pc # "dead"
          /\ stat.fail => (stat.pc = "sleep" /\ ~stat.sent))
    /\ [][stat' # stat => UNCHANGED <<serverVars, picam2, cam>>]_vars
    /\ [][(stat.pc = "sleep" /\ stat' # stat) => stat'.pc = "emit"]_vars

\* a status is broadcast in an interval after one that failed
C24_Witness == stat.failed /\ stat.again /\ stat.sent /\ ~stat.fail

----------------------------------------------------------------------------
(* Properties of the locks *)

LoopWriting == loop.pc \in {"hw", "kick", "store_dir", "store_duty"}
StopWriting(c) == handler[c].pc \in {"stop_hold", "stop_coast", "stop_curL", "stop_curR"}
ExitWriting == exit.pc \in {"stop_coast", "stop_cur"}
\* the write sequences in progress: the tick's, each stop_all's
Writers ==
    (IF LoopWriting THEN {"loop"} ELSE {})
    \cup { c \in Conns : StopWriting(c) }
    \cup (IF ExitWriting THEN {"exit"} ELSE {})

\* C25: motor hardware writes are serialized: at most one write sequence (a
\* tick's two sides with their kick holds, or a stop_all's brake, hold and
\* coast) is in progress at a time, it holds _motor_lock, and while it is in
\* progress the lines and _cur change only by its own steps
C25_WritesSerialized ==
    /\ [](/\ Cardinality(Writers) <= 1
          /\ (Writers # {}) <=> (motor_lock # "free")
          /\ LoopWriting => motor_lock = "loop"
          /\ \A c \in Conns : StopWriting(c) => motor_lock = "stop")
    /\ [][(LoopWriting /\ (pins' # pins \/ cur' # cur)) => loop' # loop]_vars
    /\ [][\A c \in Conns :
            (StopWriting(c) /\ (pins' # pins \/ cur' # cur)) => handler'[c] # handler[c]]_vars

\* two stops wait for _motor_lock while a tick holds a kick
C25_Witness ==
    /\ loop.pc = "kick"
    /\ handler["c1"].pc = "stop_lock"
    /\ handler["c2"].pc = "stop_lock"

\* the holder of a lock holds no other lock and is inside the block the lock
\* guards
NoNesting ==
    /\ drive_lock \in {"free", "loop"}
    /\ drive_lock = "loop" => (loop.pc \in {"read_left", "read_right"} /\ motor_lock # "loop")
    /\ motor_lock = "loop" => (LoopWriting /\ drive_lock # "loop")
    /\ motor_lock = "stop" => \E c \in Conns : StopWriting(c)
    /\ motor_lock = "exit" => ExitWriting

\* a task waits when the lock its next step takes is held
LoopWaits ==
    \/ loop.pc = "read_ts" /\ drive_lock # "free"
    \/ loop.pc = "acquire" /\ motor_lock # "free"
HandlerWaits(c) ==
    \/ handler[c].pc = "drive_pub" /\ drive_lock # "free"
    \/ handler[c].pc = "stop_lock" /\ motor_lock # "free"

\* C26: no task takes a lock while it holds one: _drive_lock is held by the
\* loop only across its read of the intent and never together with
\* _motor_lock; and there is no deadlock: the holder of a lock never waits
\* for a lock
C26_NoNestedLocks ==
    /\ NoNesting
    /\ (drive_lock = "loop" \/ motor_lock = "loop") => ~LoopWaits
    /\ motor_lock = "stop" => \E c \in Conns : StopWriting(c) /\ ~HandlerWaits(c)
    /\ \A c \in Conns : StopWriting(c) => ~HandlerWaits(c)

\* the loop holds _drive_lock while a stop_all holds _motor_lock and a drive
\* waits to publish
C26_Witness ==
    /\ drive_lock = "loop"
    /\ motor_lock = "stop"
    /\ \E c \in Conns : handler[c].pc = "drive_pub"

\* C27: the calibration is read by the tick and changed by the configuration
\* commands under one lock, so both sides of a tick use the same speed limit:
\* with equal trims and the intent drive(1, 1), a tick that has ended leaves
\* the same duty on both sides
C27_SameLimitBothSides ==
    (loop.pc = "sleep" /\ TRIM["L"] = TRIM["R"]) => cur["L"].duty = cur["R"].duty

----------------------------------------------------------------------------
(* Properties of the duty computation *)

\* the tick that applies drive(1, 1) under the initial calibration ends
DriveOneOneEnds ==
    /\ loop.pc = "store_duty"
    /\ loop.side = "R"
    /\ loop.L = 100
    /\ loop.R = 100
    /\ SPEED_LIMIT = InitSpeedLimit
    /\ TRIM = [s \in Sides |-> InitTrim]
    /\ loop'.pc = "sleep"
OppositeSameDuty(c) ==
    /\ c["L"].dir = -1
    /\ c["R"].dir = 1
    /\ c["L"].duty = c["R"].duty

\* C28, as the code computes it: under polarity {L: -1, R: +1}, trim 1.0,
\* speed limit 0.3, duty_min 0.12, duty_max 1.0 and gamma 0.7, drive(1, 1)
\* gives reverse on L, forward on R and the same duty on both,
\* 0.12 + 0.88 * 0.3^0.7, which is 0.499 to three places
C28_DriveOneOne ==
    [][DriveOneOneEnds =>
          /\ OppositeSameDuty(cur')
          /\ Abs(cur'["L"].duty - 498851) <= 500]_vars

\* C28, as stated: the same, with a duty of approximately 0.482
C28_DriveOneOneAsStated ==
    [][DriveOneOneEnds =>
          /\ OppositeSameDuty(cur')
          /\ Abs(cur'["L"].duty - 482000) <= 5000]_vars

\* the tick that applied drive(1, 1) under the initial calibration has ended
C28_Witness ==
    /\ loop.pc = "sleep"
    /\ loop.L = 100
    /\ loop.R = 100
    /\ SPEED_LIMIT = InitSpeedLimit
    /\ TRIM = [s \in Sides |-> InitTrim]
    /\ OppositeSameDuty(cur)
    /\ cur["L"].duty > 0

SameSign(x, y) == (x >= 0 /\ y >= 0) \/ (x <= 0 /\ y <= 0)

\* C29: under one speed limit, trim and polarity, of two inputs of the same
\* sign the one that is larger in absolute value gets a magnitude and a duty
\* that are not smaller, on either side
C29_Monotone ==
    (probe.pc = "done" /\ SameSign(probe.a, probe.b) /\ Abs(probe.a) <= Abs(probe.b))
    => \A s \in Sides :
          /\ probe.ra[s].mag <= probe.rb[s].mag
          /\ probe.ra[s].duty <= probe.rb[s].duty

\* two inputs that both drive, the larger with the larger duty
C29_Witness ==
    /\ probe.pc = "done"
    /\ 0 < probe.a
    /\ probe.a < probe.b
    /\ \A s \in Sides : 0 < probe.ra[s].duty /\ probe.ra[s].duty < probe.rb[s].duty

----------------------------------------------------------------------------
(* Properties of stop against the running loop *)

\* the last intent published is a stop's, and every handler has returned
StopSettled == h_last.cmd = "stop" /\ \A c \in Conns : handler[c].pc = "idle"

\* C30: once stop has returned its acknowledgement, and until a drive is
\* received, no tick writes a non-zero duty or a kick to a motor
C30_NoDriveAfterStop ==
    [][(StopSettled /\ loop.pc = "hw" /\ loop' # loop) => pins'[loop.side].pwm = 0]_vars

----------------------------------------------------------------------------
(* Properties of the viewer's mailbox *)

\* the number of _drain_and_render callbacks waiting in Tk's queue
Scheduled == Cardinality({i \in 1..Len(tkq) : tkq[i] = Drain})

\* no drain is waiting and none is running
NoDrain == Scheduled = 0 /\ ui.pc = "idle"

\* C31: whenever the render task is idle (busy flag clear, no drain scheduled
\* or running, no arrival in progress) the mailbox is empty
C31_IdleMeansEmpty ==
    (~render_busy /\ NoDrain /\ rx.pc = "idle") => latest_jpg = None

\* at most one _drain_and_render is scheduled or running
SingleDrain == Scheduled + (IF ui.pc = "idle" THEN 0 ELSE 1) <= 1

\* C32: at most one _drain_and_render is scheduled or running at any time,
\* and the drains executed never outnumber the frames that arrived
C32_OneDrain ==
    /\ SingleDrain
    /\ ui.runs <= arrived

\* a drain keeps the frame it decoded (lines 46-48)
Keeps == ui.pc = "decode" /\ ui'.pc = "check" /\ ui.data # None /\ ui.data.ok

\* Tk runs a _show_live_frame callback
Shows == tkq # <<>> /\ tkq' = Tail(tkq) /\ Head(tkq).f = "show"

\* C33: frames are rendered in arrival order and at most once each, and the
\* frame a drain takes is the newest one that arrived
C33_InOrderOnce ==
    /\ [](latest_jpg # None => latest_jpg.id = arrived)
    /\ [][/\ Keeps => ui.data.id > last_frame_bgr
          /\ Shows => Head(tkq).frame > shown
          /\ (ui.pc = "read" /\ ui'.pc = "clear") => ui'.data = latest_jpg]_vars

\* frame 2 was overwritten by frame 3 while frame 1 was rendered; the second
\* drain rendered frame 3
C33_Witness ==
    /\ shown = 3
    /\ last_frame_bgr = 3
    /\ ui.runs = 2

----------------------------------------------------------------------------
(* Properties of the intent's timestamp and of the ticks before the first drive *)

\* C35: the timestamp stored in the intent never decreases: each accepted
\* drive or stop stores a timestamp no earlier than the one it overwrites
C35_TimestampMonotone == [][last_drive'.ts >= last_drive.ts]_vars

\* a tick writes one side's output (lines 181-206)
TickWrites == loop.pc = "hw" /\ loop'.pc # "hw" /\ loop'.pc # "dead"

\* C36: until the first drive is accepted, every tick writes (coast, 0) on the
\* side it serves and starts no kick, and the stored output stays (0, 0)
C36_NeutralUntilDrive ==
    /\ [](~h_last.driven => (loop.pc # "kick" /\ \A s \in Sides : cur[s] = Stopped))
    /\ [][(TickWrites /\ ~h_last.driven) =>
            /\ pins'[loop.side] = CoastPins
            /\ loop'.pc = "store_dir"
            /\ loop'.dir = 0
            /\ loop'.target = 0]_vars

\* a tick has written the right side while no drive was ever accepted; a
\* stop had braked the pins before
C36_Witness ==
    /\ ~h_last.driven
    /\ h_last.cmd = "stop"
    /\ loop.pc = "store_dir"
    /\ loop.side = "R"
    /\ pins["R"] = CoastPins
    /\ ~loop.wd

----------------------------------------------------------------------------
(* Properties of the servo angle *)

\* the pulse of an angle under the trim in force, written out from lines 153-156
PulseOf(deg, trim) ==
    Trunc((SERVO_MIN_US + trim) * 180 + (SERVO_MAX_US - SERVO_MIN_US) * deg, 180)

\* on_servo_set stores the angle moved by "delta" (no "angle" in the payload)
DeltaApplied ==
    /\ srv.pc = "angle" /\ srv'.pc = "write"
    /\ srv.req.angle = Absent /\ srv.req.delta.t = "num"

\* C37: after any sequence of servo_set commands the stored angle lies in
\* [SERVO_MIN_DEG, SERVO_MAX_DEG]; a delta is added to the stored angle and the
\* sum clamped; get_status and servo_get report the stored angle and its pulse
C37_AngleInRange ==
    /\ [](SERVO_ANGLE_DEG >= SERVO_MIN_DEG /\ SERVO_ANGLE_DEG <= SERVO_MAX_DEG)
    /\ []((srv.pc = "reply" /\ srv.cmd \in {"get_status", "servo_get"})
            => /\ srv.rep.angle = SERVO_ANGLE_DEG
               /\ srv.rep.us = PulseOf(SERVO_ANGLE_DEG, SERVO_TRIM_US))
    /\ [][DeltaApplied =>
            SERVO_ANGLE_DEG' = Max(SERVO_MIN_DEG,
                                   Min(SERVO_MAX_DEG, SERVO_ANGLE_DEG + srv.req.delta.v))]_vars

\* a delta of -45 at angle 0 was accepted and left the angle at 0
C37_Witness ==
    /\ srv.pc = "reply" /\ srv.cmd = "servo_set" /\ srv.ok
    /\ srv.req.angle = Absent
    /\ srv.req.delta = Num(-45)
    /\ srv.before.angle = 0
    /\ SERVO_ANGLE_DEG = 0

----------------------------------------------------------------------------
(* Properties of task start-up *)

\* C34: however the connect handlers interleave with one another and with
\* start-up, at most one actuation loop, one status loop and one camera
\* producer is ever started
C34_SingleInstance == \A t \in Tasks : boot.started[t] <= 1

----------------------------------------------------------------------------
(* Properties of the viewer's keyboard *)

\* C38: a press of a drive key that is already held sends no command; a key
\* release sends stop exactly when no drive key remains held
C38_RepeatAndRelease ==
    /\ (kb.ev = "press" /\ kb.key \in kb.before) => (kb.sent = "none" /\ drive_pressed = kb.before)
    /\ kb.ev = "release" => (kb.sent = "stop" <=> drive_pressed \cap DriveKeys = {})
    /\ (kb.ev = "release" /\ drive_pressed \cap DriveKeys # {}) => kb.sent = "none"

\* one of two held drive keys was released: nothing was sent
C38_Witness ==
    /\ kb.ev = "release"
    /\ kb.key \in kb.before
    /\ drive_pressed # {}
    /\ kb.sent = "none"

----------------------------------------------------------------------------
(* Properties of the debounced sliders *)

\* the timers pending for a setting
Pending(x) == {t \in timers : t.setting = x}

\* the timers pending for a setting after the step
PendingNext(x) == {t \in timers' : t.setting = x}

\* a timer has run: one more command was emitted
Emits == Len(slider'.sent) = Len(slider.sent) + 1

\* a slider of setting x has moved
Changes(x) == slider'.n = slider.n + 1 /\ slider'.last[x].at = ui_time

\* C39: a burst of changes of one setting, each less than DEBOUNCE_MS after
\* the one before, emits one command, DEBOUNCE_MS after the last change and
\* with its value; a change of one setting cancels no timer of another
C39_Debounce ==
    /\ [](\A x \in Settings :
            /\ Cardinality(Pending(x)) <= 1
            /\ \A t \in Pending(x) :
                  /\ t.due = slider.last[x].at + DEBOUNCE_MS
                  /\ t.val = slider.last[x].val
                  /\ ui_time <= t.due)
    /\ [][/\ Emits =>
               LET e == slider'.sent[Len(slider'.sent)]
               IN  /\ e.at = slider.last[e.setting].at + DEBOUNCE_MS
                   /\ e.val = slider.last[e.setting].val
                   /\ Pending(e.setting) # {}
                   /\ PendingNext(e.setting) = {}
          /\ Len(slider'.sent) \in {Len(slider.sent), Len(slider.sent) + 1}
          /\ \A x \in Settings :
               /\ (Pending(x) # {} /\ PendingNext(x) = {}) => (Emits /\ slider'.sent[Len(slider'.sent)].setting = x)
               /\ (PendingNext(x) # Pending(x) /\ ~Emits) => Changes(x)
               /\ Changes(x) => (~Emits /\ Cardinality(PendingNext(x)) = 1)]_vars

\* a burst of two speed changes emitted once, the second value, while a trim
\* change made in between was emitted too
C39_Witness ==
    /\ slider.n >= 3
    /\ Len(slider.sent) = 2
    /\ \E i \in 1..2 : slider.sent[i].setting = "speed" /\ slider.sent[i].val = slider.last["speed"].val
    /\ \E i \in 1..2 : slider.sent[i].setting = "L"
    /\ timers = {}

============================================================================
